---- MODULE Spec2Model ----
(***************************************************************************)
(* The admin dashboard's Ordered Collection Editor (StatsSettings,         *)
(* StepsSettings, CountriesSettings and their siblings): the local form    *)
(* state machine, its three mutations (save, delete, reorder), the list    *)
(* query they invalidate, the axios gateway's 401 interceptor, and the     *)
(* REST backend the requests reach.  Further down: the Session Store        *)
(* (useAuth) with the gateway's interceptors, and the Chat page.  Each of   *)
(* the three has its own specification over the same variables.            *)
(***************************************************************************)
EXTENDS Integers, Sequences, FiniteSets, TLC

VARIABLES
    screen,        \* which editor instance is mounted: "stats", "steps", "countries"
    editingId,     \* useState<string | null>
    formData,      \* useState<FormData>
    isAdding,      \* useState(false)
    deleteId,      \* useState<string | null>
    data,          \* useQuery data: the cached list (stats / steps / countries)
    status,        \* the query's status: "pending", "success", "error"
    fetching,      \* a GET of the list is outstanding
    saveReq,       \* saveMutation's request: NoReq or [item, stage, attempt]
    deleteReq,     \* deleteMutation's request: NoReq or [id, stage, attempt]
    reorderReqs,   \* reorderMutation's requests in flight: set of [ids, stage, n]
    toast,         \* the notification the latest step raised: "none", "success", "error"
    server,        \* the backend's collection, in storage order
    location,      \* "page" (the editor route) or "login"
    token,         \* localStorage holds admin_token
    genCount,      \* identifiers generateId has produced so far
    sent,          \* mutation requests issued so far (history, bounds the run)
    \* --- Session Store (useAuth) and localStorage
    session,       \* the zustand state: [user, token, isLoading]
    storage,       \* localStorage: [admin_token, admin_auth (the persisted token)]
    authReqs,      \* requests in flight: set of [kind, token]
    checked,       \* AppRoutes' effect has called checkAuth in this page load
    validated,     \* tokens a successful login or who-am-I call returned or
                   \* accepted since the page was loaded (history)
    outcome,       \* how the latest completed login() call ended for its caller
    \* --- Chat page
    selectedUserId,        \* useState<string | null>
    newMessage,            \* useState('')
    deleteDialogOpen,      \* useState(false)
    sendReq,               \* sendMessageMutation's request: NoReq or [odId, message]
    conversationDeletes,   \* deleteConversationMutation's requests in flight: odIds
    historyFetching,       \* odIds whose chat-history query has a GET outstanding
    conversationsFetching, \* the chat-conversations query has a GET outstanding
    conversationsStatus,   \* that query's status: "pending", "success", "error"
    \* --- Chat page: the day groups of the selected conversation's history
    chatHistory,   \* chatHistory.messages as the history query returned them
    groups,        \* the accumulator of the reduce: entries in insertion order
    reduced,       \* messages the reduce has visited
    \* --- Applications page: CSV export
    items,         \* data.items: the displayed page of applications
    csvContent,    \* the text of the downloaded file, Null before an export
    \* --- Applications page and Dashboard
    appRoute,      \* the route on screen: "dashboard", "applications", "login"
    page,          \* useState(1)
    statusFilter,  \* useState('all'): the status select
    debouncedSearch, \* useState(''): the search text the query is keyed by
    appsQuery,     \* the applications query of the key on screen: [loaded, key,
                   \* of, items, totalPages, fetching, invalidated]; `of` is
                   \* the key the items were fetched for
    statsQuery,    \* the dashboard-stats query: [loaded, byStatus, fetching,
                   \* answered, answer, invalidated]; answer is the response
                   \* the backend has sent and the page has not yet received
    selectedApp,   \* useState<Application | null>: the detail modal
    deleteApp,     \* useState<Application | null>: the confirmation dialog
    updateReqs,    \* updateMutation's requests in flight: set of [id, status, stage]
    appDeleteReq,  \* deleteMutation's request: NoReq or [id, stage]
    backendApps,   \* the backend's applications
    appSent,       \* update and delete requests issued so far (bounds the run)
    \* --- image uploads
    uploadScreen,  \* the settings page on screen: a member of UploadScreens, or "login"
    uploading,     \* the uploading indicator (uploadingLang, uploadingImage,
                   \* uploadingAvatar): Null or the target of the upload
    uploadReqs,    \* the upload mutations' requests in flight: set of
                   \* [screen, target, file, stage, live]
    images,        \* the backend's image of every slot: Null or the file's type
    imageQueries,  \* what the pages' queries hold of the backend's images
    uploadToast,   \* the toast the latest step of an upload page raised
    uploadSent     \* upload requests issued so far (bounds the run)

sessionVars == <<session, storage, authReqs, checked, validated, outcome>>
chatVars == <<selectedUserId, newMessage, deleteDialogOpen, sendReq,
              conversationDeletes, historyFetching, conversationsFetching,
              conversationsStatus>>
collectionVars == <<screen, editingId, formData, isAdding, deleteId, data, status,
                    fetching, saveReq, deleteReq, reorderReqs, server, token,
                    genCount, sent>>

groupingVars == <<chatHistory, groups, reduced>>
csvVars == <<items, csvContent>>
applicationsVars == <<appRoute, page, statusFilter, debouncedSearch, appsQuery,
                      statsQuery, selectedApp, deleteApp, updateReqs, appDeleteReq,
                      backendApps, appSent>>
uploadVars == <<uploadScreen, uploading, uploadReqs, images, imageQueries,
                uploadToast, uploadSent>>
\* the state of the pages that have a specification of their own further down
otherPagesVars == <<groupingVars, csvVars, applicationsVars, uploadVars>>

vars == <<screen, editingId, formData, isAdding, deleteId, data, status, fetching,
          saveReq, deleteReq, reorderReqs, toast, server, location,
          token, genCount, sent, sessionVars, chatVars, otherPagesVars>>

\* everything the specifications of those pages leave alone
coreVars == <<collectionVars, sessionVars, chatVars, toast, location>>

editorVars == <<editingId, formData, isAdding>>
netVars == <<saveReq, deleteReq, reorderReqs>>

-----------------------------------------------------------------------------
(* Bounds of the model *)

\* identifiers generateId produces in one run
MaxGenerated == 1
\* mutation requests issued in one run
MaxSent == 2

-----------------------------------------------------------------------------
(* Values *)

Null == "null"
NoReq == [stage |-> "none"]
NaN == "NaN"

Screens == {"stats", "steps", "countries"}

\* mutations: { retry: 1 }
MutationRetry_once == 0 + 1

\* queryClient defaultOptions: mutations: { retry: 0 }
MutationRetry == 0

\* what the operator types into a field; a field with no value here is left as
\* Add or Edit filled it
FieldValues(f) ==
    CASE f = "value" -> {<<>>, <<"1", "e", "3">>}
      [] f = "prefix" -> {}
      [] f = "suffix" -> {}
      [] f \in {"descriptionUz", "titleUz", "nameUz"} -> {"", "grant"}
      [] f \in {"descriptionEn", "nameEn"} -> {"", "award"}
      [] f \in {"titleEn", "bgText"} -> {}

Digit(c) ==
    CASE c = "0" -> 0 [] c = "1" -> 1 [] c = "2" -> 2 [] c = "3" -> 3 [] c = "4" -> 4
      [] c = "5" -> 5 [] c = "6" -> 6 [] c = "7" -> 7 [] c = "8" -> 8 [] c = "9" -> 9

IsDigit(c) == c \in {"0", "1", "2", "3", "4", "5", "6", "7", "8", "9"}

RECURSIVE DigitPrefix(_)
\* the longest prefix of s made of decimal digits
DigitPrefix(s) ==
    IF s = <<>> \/ ~IsDigit(Head(s)) THEN <<>> ELSE <<Head(s)>> \o DigitPrefix(Tail(s))

RECURSIVE DigitsValue(_, _)
DigitsValue(s, acc) ==
    IF s = <<>> THEN acc ELSE DigitsValue(Tail(s), acc * 10 + Digit(Head(s)))

\* parseInt(s, 10): an optional sign, then the longest run of digits; NaN without one
parseInt(s) ==
    LET neg == s # <<>> /\ Head(s) = "-"
        body == IF s # <<>> /\ Head(s) \in {"-", "+"} THEN Tail(s) ELSE s
        ds == DigitPrefix(body)
    IN  IF ds = <<>> THEN NaN
        ELSE IF neg THEN 0 - DigitsValue(ds, 0) ELSE DigitsValue(ds, 0)

DigitChar(d) == <<"0", "1", "2", "3", "4", "5", "6", "7", "8", "9">>[d + 1]

RECURSIVE NatToString(_)
NatToString(n) ==
    IF n < 10 THEN <<DigitChar(n)>> ELSE NatToString(n \div 10) \o <<DigitChar(n % 10)>>

\* Number.prototype.toString() of an integer
toString(n) == IF n < 0 THEN <<"-">> \o NatToString(0 - n) ELSE NatToString(n)

\* String.prototype.toUpperCase() on the texts of the model
toUpperCase(s) ==
    CASE s = "grant" -> "GRANT"
      [] s = "award" -> "AWARD"
      [] OTHER -> s

\* JavaScript's a || b on strings: the empty string is falsy
OrElse(a, b) == IF a = "" THEN b ELSE a

-----------------------------------------------------------------------------
(* Forms and items of the three screens *)

Fields(scr) ==
    CASE scr = "stats" -> {"value", "prefix", "suffix", "descriptionUz", "descriptionEn"}
      [] scr = "steps" -> {"titleUz", "titleEn", "descriptionUz", "descriptionEn"}
      [] scr = "countries" -> {"nameUz", "nameEn", "bgText"}

emptyForm(scr) ==
    CASE scr = "stats" ->
            [id |-> "", value |-> <<>>, prefix |-> "", suffix |-> "",
             descriptionUz |-> "", descriptionEn |-> ""]
      [] scr = "steps" ->
            [id |-> "", titleUz |-> "", titleEn |-> "",
             descriptionUz |-> "", descriptionEn |-> ""]
      [] scr = "countries" ->
            [id |-> "", nameUz |-> "", nameEn |-> "", bgText |-> ""]

\* handleEdit's setFormData argument
formOf(scr, item) ==
    CASE scr = "stats" ->
            [id |-> item.id, value |-> toString(item.value), prefix |-> item.prefix,
             suffix |-> item.suffix, descriptionUz |-> item.descriptionUz,
             descriptionEn |-> item.descriptionEn]
      [] scr = "steps" ->
            [id |-> item.id, titleUz |-> item.titleUz, titleEn |-> item.titleEn,
             descriptionUz |-> item.descriptionUz, descriptionEn |-> item.descriptionEn]
      [] scr = "countries" ->
            [id |-> item.id, nameUz |-> item.nameUz, nameEn |-> item.nameEn,
             bgText |-> item.bgText]

\* the early return of handleSubmit: a mandatory field is empty
missingRequired(scr, f) ==
    CASE scr = "stats" -> f.value = <<>> \/ f.descriptionUz = ""
      [] scr = "steps" -> f.titleUz = "" \/ f.descriptionUz = ""
      [] scr = "countries" -> f.nameUz = ""

\* array.find(s => s.id === id): the first match as <<item>>, or <<>> for undefined
find(list, id) ==
    LET hits == SelectSeq(list, LAMBDA x : x.id = id)
    IN  IF hits = <<>> THEN <<>> ELSE <<hits[1]>>

\* order: editingId ? list.find(s => s.id === editingId)?.order || list.length + 1
\*                  : list.length + 1
orderFor(list, editing) ==
    IF editing # Null /\ editing # ""
    THEN LET hit == find(list, editing)
         IN  IF hit # <<>> /\ hit[1].order # 0 THEN hit[1].order ELSE Len(list) + 1
    ELSE Len(list) + 1

\* the object of handleSubmit without the En fallbacks
itemOf_noFallback(scr, f, list, editing, newId) ==
    LET id == OrElse(f.id, newId)
        order == orderFor(list, editing)
    IN  CASE scr = "stats" ->
                [id |-> id, value |-> parseInt(f.value), prefix |-> f.prefix,
                 suffix |-> f.suffix, descriptionUz |-> f.descriptionUz,
                 descriptionEn |-> f.descriptionEn, order |-> order]
          [] scr = "steps" ->
                [id |-> id, titleUz |-> f.titleUz, titleEn |-> f.titleEn,
                 descriptionUz |-> f.descriptionUz, descriptionEn |-> f.descriptionEn,
                 order |-> order]
          [] scr = "countries" ->
                [id |-> id, nameUz |-> f.nameUz, nameEn |-> f.nameEn,
                 bgText |-> OrElse(f.bgText, toUpperCase(OrElse(f.nameEn, f.nameUz))),
                 order |-> order]

\* the object handleSubmit hands to saveMutation.mutate; newId is what
\* generateId() would return were formData.id empty
itemOf(scr, f, list, editing, newId) ==
    LET id == OrElse(f.id, newId)
        order == orderFor(list, editing)
    IN  CASE scr = "stats" ->
                [id |-> id, value |-> parseInt(f.value), prefix |-> f.prefix,
                 suffix |-> f.suffix, descriptionUz |-> f.descriptionUz,
                 descriptionEn |-> OrElse(f.descriptionEn, f.descriptionUz),
                 order |-> order]
          [] scr = "steps" ->
                [id |-> id, titleUz |-> f.titleUz,
                 titleEn |-> OrElse(f.titleEn, f.titleUz),
                 descriptionUz |-> f.descriptionUz,
                 descriptionEn |-> OrElse(f.descriptionEn, f.descriptionUz),
                 order |-> order]
          [] scr = "countries" ->
                [id |-> id, nameUz |-> f.nameUz, nameEn |-> OrElse(f.nameEn, f.nameUz),
                 bgText |-> OrElse(f.bgText, toUpperCase(OrElse(f.nameEn, f.nameUz))),
                 order |-> order]

\* generateId(): prefix, timestamp and random suffix; a value never produced before
generateId(n) == <<"g1", "g2", "g3", "g4">>[n + 1]

-----------------------------------------------------------------------------
(* The REST backend behind statsApi / stepsApi / countriesApi *)

Ids(list) == {list[i].id : i \in 1..Len(list)}
IdSeq(list) == [i \in 1..Len(list) |-> list[i].id]

RECURSIVE insertByOrder(_, _)
insertByOrder(sorted, x) ==
    IF sorted = <<>> THEN <<x>>
    ELSE IF x.order < Head(sorted).order THEN <<x>> \o sorted
    ELSE <<Head(sorted)>> \o insertByOrder(Tail(sorted), x)

RECURSIVE sortByOrder(_)
\* stable sort on order
sortByOrder(list) ==
    IF list = <<>> THEN <<>>
    ELSE insertByOrder(sortByOrder(SubSeq(list, 1, Len(list) - 1)), list[Len(list)])

\* GET /<collection>/admin
serverGetAll(store) == sortByOrder(store)

\* POST /<collection>: create, or replace the item with that id
serverUpsert(store, item) ==
    IF item.id \in Ids(store)
    THEN [i \in 1..Len(store) |-> IF store[i].id = item.id THEN item ELSE store[i]]
    ELSE Append(store, item)

\* DELETE /<collection>/:id
serverDelete(store, id) == SelectSeq(store, LAMBDA x : x.id # id)

IndexOf(ids, id) == CHOOSE i \in 1..Len(ids) : ids[i] = id

\* PUT /<collection>/reorder { orderedIds }: order becomes the position in orderedIds
serverReorder(store, ids) ==
    [i \in 1..Len(store) |->
        IF \E k \in 1..Len(ids) : ids[k] = store[i].id
        THEN [store[i] EXCEPT !.order = IndexOf(ids, store[i].id)]
        ELSE store[i]]

\* what the backend holds when the page is opened: the items left of a collection
\* whose second item was deleted in an earlier session.  The order values are the
\* backend's: the steps collection was numbered from 0, the others from 1
initialStore(scr) ==
    CASE scr = "stats" ->
            <<[id |-> "a", value |-> 7, prefix |-> "$", suffix |-> "%",
               descriptionUz |-> "grant", descriptionEn |-> "award", order |-> 1],
              [id |-> "b", value |-> 7, prefix |-> "$", suffix |-> "%",
               descriptionUz |-> "grant", descriptionEn |-> "award", order |-> 3]>>
      [] scr = "steps" ->
            <<[id |-> "a", titleUz |-> "grant", titleEn |-> "award",
               descriptionUz |-> "grant", descriptionEn |-> "award", order |-> 0],
              [id |-> "b", titleUz |-> "grant", titleEn |-> "award",
               descriptionUz |-> "grant", descriptionEn |-> "award", order |-> 2]>>
      [] scr = "countries" ->
            <<[id |-> "a", nameUz |-> "grant", nameEn |-> "award", bgText |-> "BG",
               order |-> 1],
              [id |-> "b", nameUz |-> "grant", nameEn |-> "award", bgText |-> "BG",
               order |-> 3],
              [id |-> "c", nameUz |-> "grant", nameEn |-> "award", bgText |-> "BG",
               order |-> 4]>>

-----------------------------------------------------------------------------
(* The parts a specification does not exercise stay at rest *)

\* the session of a signed-in operator, as it is while a page is worked on
sessionAtRest ==
    /\ session = [user |-> "admin", token |-> "t1", isLoading |-> FALSE]
    /\ storage = [admin_token |-> "t1", admin_auth |-> "t1"]
    /\ authReqs = {}
    /\ checked = TRUE
    /\ validated = {"t1"}
    /\ outcome = "none"

\* the Chat page's initial state
chatAtRest ==
    /\ selectedUserId = Null
    /\ newMessage = <<>>
    /\ deleteDialogOpen = FALSE
    /\ sendReq = NoReq
    /\ conversationDeletes = {}
    /\ historyFetching = {}
    /\ conversationsFetching = FALSE
    /\ conversationsStatus = "pending"

\* no history has been grouped
groupingAtRest ==
    /\ chatHistory = <<>>
    /\ groups = <<>>
    /\ reduced = 0

\* nothing is displayed and nothing was exported
csvAtRest ==
    /\ items = <<>>
    /\ csvContent = Null

\* the statuses an application goes through in the model
Statuses == {"new", "contacted"}

\* a query the cache has no entry for
emptyAppsQuery ==
    [loaded |-> FALSE, key |-> [page |-> 0, status |-> "all", search |-> ""],
     of |-> [page |-> 0, status |-> "all", search |-> ""],
     items |-> <<>>, totalPages |-> 0, fetching |-> FALSE, invalidated |-> FALSE]
emptyStatsQuery ==
    [loaded |-> FALSE, byStatus |-> [st \in Statuses |-> 0], fetching |-> FALSE,
     answered |-> FALSE, answer |-> [st \in Statuses |-> 0], invalidated |-> FALSE]

\* nobody has opened the Dashboard or the Applications page
applicationsAtRest ==
    /\ appRoute = "login"
    /\ page = 1
    /\ statusFilter = "all"
    /\ debouncedSearch = ""
    /\ appsQuery = emptyAppsQuery
    /\ statsQuery = emptyStatsQuery
    /\ selectedApp = Null
    /\ deleteApp = Null
    /\ updateReqs = {}
    /\ appDeleteReq = NoReq
    /\ backendApps = <<>>
    /\ appSent = 0

\* no upload is going on
Languages == {"uz", "en"}
\* the places an image can be uploaded to on the routed pages: the two
\* hero images, the two images of a program and of a country, the avatar of
\* a testimonial
Slots == ({"hero", "program", "country"} \X Languages) \cup {<<"avatar", "t1">>}

uploadAtRest ==
    /\ uploadScreen = "login"
    /\ uploading = Null
    /\ uploadReqs = {}
    /\ images = [s \in Slots |-> Null]
    /\ imageQueries = [s \in Slots |-> Null]
    /\ uploadToast = "none"
    /\ uploadSent = 0

otherPagesAtRest ==
    /\ groupingAtRest
    /\ csvAtRest
    /\ applicationsAtRest
    /\ uploadAtRest

-----------------------------------------------------------------------------
(* Initial state: the page has just been opened *)

Init ==
    /\ sessionAtRest
    /\ chatAtRest
    /\ otherPagesAtRest
    /\ screen \in Screens
    /\ editingId = Null
    /\ formData = emptyForm(screen)
    /\ isAdding = FALSE
    /\ deleteId = Null
    /\ data = <<>>
    /\ status = "pending"
    /\ fetching = TRUE
    /\ saveReq = NoReq
    /\ deleteReq = NoReq
    /\ reorderReqs = {}
    /\ toast = "none"
    /\ server = initialStore(screen)
    /\ location = "page"
    /\ token = TRUE
    /\ genCount = 0
    /\ sent = 0

\* if (isLoading) return <PageLoading />
isLoading == status = "pending" /\ fetching
\* the editor is rendered and takes input
rendered == location = "page" /\ ~isLoading
\* {(isAdding || editingId) && <form ...>}
formOpen == isAdding \/ editingId # Null
\* the ConfirmDialog's backdrop covers the page while it is open
dialogOpen == deleteId # Null

\* queryClient.invalidateQueries({ queryKey }): the active query refetches, and a
\* fetch already under way is cancelled and started again
invalidateQueries == fetching' = TRUE

-----------------------------------------------------------------------------
(* The form state machine *)

resetForm ==
    /\ formData' = emptyForm(screen)
    /\ editingId' = Null
    /\ isAdding' = FALSE

\* handleEdit without its setIsAdding(false)
handleEdit_keepsAdding(item) ==
    /\ formData' = formOf(screen, item)
    /\ editingId' = item.id
    /\ UNCHANGED isAdding

handleEdit(item) ==
    /\ formData' = formOf(screen, item)
    /\ editingId' = item.id
    /\ isAdding' = FALSE

handleAdd ==
    /\ formData' = [emptyForm(screen) EXCEPT !.id = generateId(genCount)]
    /\ isAdding' = TRUE
    /\ editingId' = Null

\* the "Yangi qo'shish" buttons: the header's is rendered while no form is open,
\* the EmptyState's while the list is empty
Add ==
    /\ rendered /\ ~dialogOpen
    /\ (~formOpen) \/ data = <<>>
    /\ genCount < MaxGenerated
    /\ handleAdd
    /\ genCount' = genCount + 1
    /\ UNCHANGED <<screen, deleteId, data, status, fetching, netVars,
                   server, location, token, sent>>
    /\ toast' = "none"
    /\ UNCHANGED <<sessionVars, chatVars, otherPagesVars>>

\* a row's "Tahrirlash" button
Edit ==
    /\ rendered /\ ~dialogOpen
    /\ \E i \in 1..Len(data) : handleEdit(data[i])
    /\ UNCHANGED <<screen, deleteId, data, status, fetching, netVars,
                   server, location, token, genCount, sent>>
    /\ toast' = "none"
    /\ UNCHANGED <<sessionVars, chatVars, otherPagesVars>>

\* the form's "Bekor qilish" button
Cancel ==
    /\ rendered /\ ~dialogOpen /\ formOpen
    /\ resetForm
    /\ UNCHANGED <<screen, deleteId, data, status, fetching, netVars,
                   server, location, token, genCount, sent>>
    /\ toast' = "none"
    /\ UNCHANGED <<sessionVars, chatVars, otherPagesVars>>

\* onChange of an input: setFormData({ ...formData, [f]: e.target.value })
setFormData(f, v) ==
    /\ formData' = [formData EXCEPT ![f] = v]
    /\ UNCHANGED <<editingId, isAdding>>

Type ==
    /\ rendered /\ ~dialogOpen /\ formOpen
    /\ \E f \in Fields(screen) : \E v \in FieldValues(f) :
          /\ formData[f] # v
          /\ setFormData(f, v)
    /\ UNCHANGED <<screen, deleteId, data, status, fetching, netVars,
                   server, location, token, genCount, sent>>
    /\ toast' = "none"
    /\ UNCHANGED <<sessionVars, chatVars, otherPagesVars>>

\* handleSubmit with id: generateId() in place of formData.id || generateId()
handleSubmit_freshId ==
    IF missingRequired(screen, formData)
    THEN /\ toast' = "error"
         /\ UNCHANGED <<saveReq, sent, genCount>>
    ELSE /\ sent < MaxSent
         /\ saveReq' = [stage |-> "sent", attempt |-> 0,
                        item |-> itemOf(screen, [formData EXCEPT !.id = ""], data,
                                        editingId, generateId(genCount))]
         /\ genCount' = genCount + 1
         /\ sent' = sent + 1
         /\ toast' = "none"

\* handleSubmit without its early return
handleSubmit_noValidation ==
    /\ sent < MaxSent
    /\ saveReq' = [stage |-> "sent", attempt |-> 0,
                   item |-> itemOf(screen, formData, data, editingId,
                                   generateId(genCount))]
    /\ genCount' = IF formData.id = "" THEN genCount + 1 ELSE genCount
    /\ sent' = sent + 1
    /\ toast' = "none"

\* handleSubmit; the submit button is disabled while saveMutation.isPending
handleSubmit ==
    IF missingRequired(screen, formData)
    THEN /\ toast' = "error"
         /\ UNCHANGED <<saveReq, sent, genCount>>
    ELSE /\ sent < MaxSent
         /\ saveReq' = [stage |-> "sent", attempt |-> 0,
                        item |-> itemOf(screen, formData, data, editingId,
                                        generateId(genCount))]
         /\ genCount' = IF formData.id = "" THEN genCount + 1 ELSE genCount
         /\ sent' = sent + 1
         /\ toast' = "none"

Submit ==
    /\ rendered /\ ~dialogOpen /\ formOpen
    /\ saveReq.stage = "none"
    /\ handleSubmit
    /\ UNCHANGED <<screen, editorVars, deleteId, data, status, fetching,
                   deleteReq, reorderReqs, server, location, token>>
    /\ UNCHANGED <<sessionVars, chatVars, otherPagesVars>>

-----------------------------------------------------------------------------
(* The axios gateway: a 401 on any response *)

\* response interceptor: localStorage.removeItem('admin_token');
\* window.location.href = '/login'.  The assignment reloads the application at
\* the login page, so the component state, the query cache and the pending
\* requests' callbacks are gone.
unauthorized ==
    /\ token' = FALSE
    /\ location' = "login"
    /\ editingId' = Null
    /\ formData' = emptyForm(screen)
    /\ isAdding' = FALSE
    /\ deleteId' = Null
    /\ data' = <<>>
    /\ status' = "pending"
    /\ fetching' = FALSE
    /\ saveReq' = NoReq
    /\ deleteReq' = NoReq
    /\ reorderReqs' = {}
    /\ toast' = "none"
    /\ UNCHANGED <<screen, server, genCount, sent>>

-----------------------------------------------------------------------------
(* saveMutation *)

\* the backend applies POST /<collection> and answers 2xx
ServerUpsert ==
    /\ location = "page"
    /\ saveReq.stage = "sent"
    /\ server' = serverUpsert(server, saveReq.item)
    /\ saveReq' = [saveReq EXCEPT !.stage = "ok"]
    /\ UNCHANGED <<screen, editorVars, deleteId, data, status, fetching,
                   deleteReq, reorderReqs, location, token, genCount, sent>>
    /\ toast' = "none"
    /\ UNCHANGED <<sessionVars, chatVars, otherPagesVars>>

\* onSuccess without resetForm()
saveOnSuccess_keepsForm ==
    /\ invalidateQueries
    /\ toast' = "success"
    /\ saveReq' = NoReq
    /\ UNCHANGED editorVars

saveOnSuccess ==
    /\ invalidateQueries
    /\ toast' = "success"
    /\ resetForm
    /\ saveReq' = NoReq

saveOnError ==
    /\ toast' = "error"
    /\ saveReq' = NoReq
    /\ UNCHANGED <<editorVars, fetching>>

SaveSuccess ==
    /\ location = "page"
    /\ saveReq.stage = "ok"
    /\ saveOnSuccess
    /\ UNCHANGED <<screen, deleteId, data, status, deleteReq, reorderReqs, server,
                   location, token, genCount, sent>>
    /\ UNCHANGED <<sessionVars, chatVars, otherPagesVars>>

\* the request fails (network error, timeout, a 4xx/5xx other than 401) without
\* having been applied; mutations are retried MutationRetry times
SaveError ==
    /\ location = "page"
    /\ saveReq.stage = "sent"
    /\ IF saveReq.attempt < MutationRetry
       THEN /\ saveReq' = [saveReq EXCEPT !.attempt = @ + 1]
            /\ toast' = "none"
            /\ UNCHANGED <<editorVars, fetching>>
       ELSE saveOnError
    /\ UNCHANGED <<screen, deleteId, data, status, deleteReq, reorderReqs, server,
                   location, token, genCount, sent>>
    /\ UNCHANGED <<sessionVars, chatVars, otherPagesVars>>

SaveUnauthorized ==
    /\ location = "page"
    /\ saveReq.stage = "sent"
    /\ unauthorized
    /\ UNCHANGED <<sessionVars, chatVars, otherPagesVars>>

-----------------------------------------------------------------------------
(* deleteMutation and its ConfirmDialog *)

\* a row's "O'chirish" button: onClick={() => setDeleteId(stat.id)}
ClickDelete ==
    /\ rendered /\ ~dialogOpen
    /\ \E i \in 1..Len(data) : deleteId' = data[i].id
    /\ UNCHANGED <<screen, editorVars, data, status, fetching, netVars,
                   server, location, token, genCount, sent>>
    /\ toast' = "none"
    /\ UNCHANGED <<sessionVars, chatVars, otherPagesVars>>

\* onClose={() => setDeleteId(null)}: the backdrop, or the cancel button
\* (disabled while deleteMutation.isPending)
CloseDialog ==
    /\ rendered /\ dialogOpen
    /\ deleteId' = Null
    /\ UNCHANGED <<screen, editorVars, data, status, fetching, netVars,
                   server, location, token, genCount, sent>>
    /\ toast' = "none"
    /\ UNCHANGED <<sessionVars, chatVars, otherPagesVars>>

\* an onConfirm that deletes the first row, whatever the dialog was opened for
onConfirm_firstRow ==
    /\ deleteId # Null
    /\ data # <<>>
    /\ deleteReq' = [stage |-> "sent", attempt |-> 0, id |-> data[1].id]
    /\ sent' = sent + 1

\* onConfirm={() => deleteId && deleteMutation.mutate(deleteId)}
onConfirm ==
    /\ deleteId # Null
    /\ deleteReq' = [stage |-> "sent", attempt |-> 0, id |-> deleteId]
    /\ sent' = sent + 1

\* the confirm button, disabled while deleteMutation.isPending
Confirm ==
    /\ rendered /\ dialogOpen
    /\ deleteReq.stage = "none"
    /\ sent < MaxSent
    /\ onConfirm
    /\ UNCHANGED <<screen, editorVars, deleteId, data, status, fetching,
                   saveReq, reorderReqs, server, location, token, genCount>>
    /\ toast' = "none"
    /\ UNCHANGED <<sessionVars, chatVars, otherPagesVars>>

\* the backend applies DELETE /<collection>/:id; an unknown id is answered 404
ServerDelete ==
    /\ location = "page"
    /\ deleteReq.stage = "sent"
    /\ deleteReq.id \in Ids(server)
    /\ server' = serverDelete(server, deleteReq.id)
    /\ deleteReq' = [deleteReq EXCEPT !.stage = "ok"]
    /\ UNCHANGED <<screen, editorVars, deleteId, data, status, fetching,
                   saveReq, reorderReqs, location, token, genCount, sent>>
    /\ toast' = "none"
    /\ UNCHANGED <<sessionVars, chatVars, otherPagesVars>>

deleteOnSuccess ==
    /\ invalidateQueries
    /\ toast' = "success"
    /\ deleteId' = Null
    /\ deleteReq' = NoReq

\* an onError that also invalidates the list
deleteOnError_invalidates ==
    /\ toast' = "error"
    /\ deleteReq' = NoReq
    /\ invalidateQueries
    /\ UNCHANGED <<deleteId>>

deleteOnError ==
    /\ toast' = "error"
    /\ deleteReq' = NoReq
    /\ UNCHANGED <<deleteId, fetching>>

DeleteSuccess ==
    /\ location = "page"
    /\ deleteReq.stage = "ok"
    /\ deleteOnSuccess
    /\ UNCHANGED <<screen, editorVars, data, status, saveReq, reorderReqs, server,
                   location, token, genCount, sent>>
    /\ UNCHANGED <<sessionVars, chatVars, otherPagesVars>>

\* the request fails: the 404 of an unknown id, a network error, a 5xx
DeleteError ==
    /\ location = "page"
    /\ deleteReq.stage = "sent"
    /\ IF deleteReq.attempt < MutationRetry
       THEN /\ deleteReq' = [deleteReq EXCEPT !.attempt = @ + 1]
            /\ toast' = "none"
            /\ UNCHANGED <<deleteId, fetching>>
       ELSE deleteOnError
    /\ UNCHANGED <<screen, editorVars, data, status, saveReq, reorderReqs, server,
                   location, token, genCount, sent>>
    /\ UNCHANGED <<sessionVars, chatVars, otherPagesVars>>

DeleteUnauthorized ==
    /\ location = "page"
    /\ deleteReq.stage = "sent"
    /\ unauthorized
    /\ UNCHANGED <<sessionVars, chatVars, otherPagesVars>>

-----------------------------------------------------------------------------
(* reorderMutation *)

\* Reorder.Group hands onReorder the rendered values with the dragged item moved
\* past its neighbour
moveItem(list, i) ==
    [k \in 1..Len(list) |->
        IF k = i THEN list[i + 1] ELSE IF k = i + 1 THEN list[i] ELSE list[k]]

\* a handleReorder that sends the ids of the first two rows only
handleReorder_firstTwo(newOrder) ==
    /\ reorderReqs' = reorderReqs \cup
          {[stage |-> "sent", attempt |-> 0,
            ids |-> SubSeq(IdSeq(newOrder), 1, 2), n |-> sent]}
    /\ sent' = sent + 1

\* handleReorder: reorderMutation.mutate(newOrder), whose mutationFn sends
\* newOrder.map(s => s.id)
handleReorder(newOrder) ==
    /\ reorderReqs' = reorderReqs \cup
          {[stage |-> "sent", attempt |-> 0, ids |-> IdSeq(newOrder), n |-> sent]}
    /\ sent' = sent + 1

Drag ==
    /\ rendered /\ ~dialogOpen
    /\ sent < MaxSent
    /\ \E i \in 1..(Len(data) - 1) : handleReorder(moveItem(data, i))
    /\ UNCHANGED <<screen, editorVars, deleteId, data, status, fetching,
                   saveReq, deleteReq, server, location, token, genCount>>
    /\ toast' = "none"
    /\ UNCHANGED <<sessionVars, chatVars, otherPagesVars>>

\* the backend applies PUT /<collection>/reorder
ServerReorder ==
    /\ location = "page"
    /\ \E r \in reorderReqs :
          /\ r.stage = "sent"
          /\ server' = serverReorder(server, r.ids)
          /\ reorderReqs' = (reorderReqs \ {r}) \cup {[r EXCEPT !.stage = "ok"]}
    /\ UNCHANGED <<screen, editorVars, deleteId, data, status, fetching,
                   saveReq, deleteReq, location, token, genCount, sent>>
    /\ toast' = "none"
    /\ UNCHANGED <<sessionVars, chatVars, otherPagesVars>>

\* onSuccess: () => queryClient.invalidateQueries(...)
reorderOnSuccess(r) ==
    /\ invalidateQueries
    /\ reorderReqs' = reorderReqs \ {r}
    /\ toast' = "none"

\* reorderMutation has no onError
reorderOnError(r) ==
    /\ reorderReqs' = reorderReqs \ {r}
    /\ toast' = "none"
    /\ UNCHANGED <<fetching>>

ReorderSuccess ==
    /\ location = "page"
    /\ \E r \in reorderReqs : r.stage = "ok" /\ reorderOnSuccess(r)
    /\ UNCHANGED <<screen, editorVars, deleteId, data, status, saveReq, deleteReq,
                   server, location, token, genCount, sent>>
    /\ UNCHANGED <<sessionVars, chatVars, otherPagesVars>>

ReorderError ==
    /\ location = "page"
    /\ \E r \in reorderReqs :
          /\ r.stage = "sent"
          /\ IF r.attempt < MutationRetry
             THEN /\ reorderReqs' = (reorderReqs \ {r}) \cup {[r EXCEPT !.attempt = @ + 1]}
                  /\ toast' = "none"
                  /\ UNCHANGED <<fetching>>
             ELSE reorderOnError(r)
    /\ UNCHANGED <<screen, editorVars, deleteId, data, status, saveReq, deleteReq,
                   server, location, token, genCount, sent>>
    /\ UNCHANGED <<sessionVars, chatVars, otherPagesVars>>

ReorderUnauthorized ==
    /\ location = "page"
    /\ \E r \in reorderReqs : r.stage = "sent"
    /\ unauthorized
    /\ UNCHANGED <<sessionVars, chatVars, otherPagesVars>>

-----------------------------------------------------------------------------
(* The list query *)

\* GET /<collection>/admin answers with the collection in display order
FetchSuccess ==
    /\ location = "page"
    /\ fetching
    /\ data' = serverGetAll(server)
    /\ status' = "success"
    /\ fetching' = FALSE
    /\ UNCHANGED <<screen, editorVars, deleteId, netVars, server, location,
                   token, genCount, sent>>
    /\ toast' = "none"
    /\ UNCHANGED <<sessionVars, chatVars, otherPagesVars>>

\* the GET fails, its one retry (queries: { retry: 1 }) included: the query is in
\* error and keeps the data it had
FetchError ==
    /\ location = "page"
    /\ fetching
    /\ status' = "error"
    /\ fetching' = FALSE
    /\ UNCHANGED <<screen, editorVars, deleteId, data, netVars, server,
                   location, token, genCount, sent>>
    /\ toast' = "none"
    /\ UNCHANGED <<sessionVars, chatVars, otherPagesVars>>

FetchUnauthorized ==
    /\ location = "page"
    /\ fetching
    /\ unauthorized
    /\ UNCHANGED <<sessionVars, chatVars, otherPagesVars>>

-----------------------------------------------------------------------------
(* Around the editor *)

\* the operator signs in again and opens the page: the component mounts with its
\* initial state and the query fetches
Mount ==
    /\ location = "login"
    /\ location' = "page"
    /\ token' = TRUE
    /\ fetching' = TRUE
    /\ UNCHANGED <<screen, editorVars, deleteId, data, status, netVars,
                   server, genCount, sent>>
    /\ toast' = "none"
    /\ UNCHANGED <<sessionVars, chatVars, otherPagesVars>>

Next ==
    \/ Add \/ Edit \/ Cancel \/ Type \/ Submit
    \/ ServerUpsert \/ SaveSuccess \/ SaveError \/ SaveUnauthorized
    \/ ClickDelete \/ CloseDialog \/ Confirm
    \/ ServerDelete \/ DeleteSuccess \/ DeleteError \/ DeleteUnauthorized
    \/ Drag \/ ServerReorder \/ ReorderSuccess \/ ReorderError \/ ReorderUnauthorized
    \/ FetchSuccess \/ FetchError \/ FetchUnauthorized
    \/ Mount

Spec == Init /\ [][Next]_vars

-----------------------------------------------------------------------------
(* C1: at most one of Adding and Editing is active; opening one while the  *)
(* other is active leaves only the newly opened one, in that same step.    *)

OneModeAtATime == ~(isAdding /\ editingId # Null)

\* C1: in every reachable state at most one of isAdding and editingId is active,
\* every Edit step ends in Editing only and every Add step in Adding only
C1_OnlyOneMode ==
    /\ []OneModeAtATime
    /\ [][(Edit => editingId' # Null /\ ~isAdding')
          /\ (Add => isAdding' /\ editingId' = Null)]_vars

\* Adding is active and a row's Edit button switches the form to Editing alone
C1_EditWhileAdding ==
    /\ isAdding
    /\ ENABLED (Edit /\ editingId' # Null /\ ~isAdding')

-----------------------------------------------------------------------------
(* C2: a submit with an empty mandatory field stays local.                 *)

\* C2: a Submit step taken with a mandatory field empty raises the error
\* notification, issues no request and changes neither mode, form nor cache
C2_InvalidSubmitIsLocal ==
    [][(Submit /\ missingRequired(screen, formData)) =>
          /\ toast' = "error"
          /\ UNCHANGED <<netVars, sent, editorVars, data, fetching, status, server>>]_vars

\* the error notification was raised although no request was ever issued
C2_Rejected ==
    /\ toast = "error"
    /\ sent = 0
    /\ formOpen
    /\ missingRequired(screen, formData)

-----------------------------------------------------------------------------
(* C3: a successful save invalidates the list and returns to Idle.         *)

\* C3: the step in which saveMutation handles its success response starts the
\* refetch of the list and leaves no form open, the form being the empty form
C3_SuccessReturnsToIdle ==
    [][SaveSuccess =>
          /\ fetching'
          /\ ~isAdding'
          /\ editingId' = Null
          /\ formData' = emptyForm(screen)]_vars

\* the only request of the run was a save that created an item, and its success
\* has just been handled
C3_Saved ==
    /\ toast = "success"
    /\ sent = 1
    /\ Len(server) = Len(initialStore(screen)) + 1
    /\ saveReq = NoReq
    /\ ~formOpen
    /\ fetching

-----------------------------------------------------------------------------
(* C4: a failed save keeps the form open and is not retried.               *)

\* C4 as claimed: whenever the save's backend call fails, whatever the failure,
\* mode and form fields are as they were
C4_AnyFailureKeepsForm ==
    [][(SaveError \/ SaveUnauthorized) => UNCHANGED editorVars]_vars

\* C4, amended: when the save fails with anything but a 401 the mode and the form
\* are unchanged, the list is neither invalidated nor changed, the error
\* notification is raised and the request is gone without a resend; a save
\* request is only ever issued by a Submit step; a 401 removes the token and
\* reloads the application at the login page
C4_ErrorKeepsForm ==
    /\ [][SaveError =>
            /\ UNCHANGED <<editorVars, data, fetching, status, sent>>
            /\ toast' = "error"
            /\ saveReq' = NoReq]_vars
    /\ [][(saveReq' # saveReq /\ saveReq'.stage = "sent") => Submit]_vars
    /\ [][SaveUnauthorized => ~token' /\ location' = "login" /\ ~formOpen']_vars

\* the error notification of a failed save is up, the form still open and valid
C4_FailedSave ==
    /\ toast = "error"
    /\ formOpen
    /\ ~missingRequired(screen, formData)
    /\ deleteId = Null
    /\ saveReq = NoReq
    /\ sent = 1

-----------------------------------------------------------------------------
(* C5: what a valid submit sends.                                          *)

RECURSIVE Pow10(_)
Pow10(n) == IF n = 0 THEN 1 ELSE 10 * Pow10(n - 1)

\* the number a numeric input's text denotes: digits, optionally e and an exponent
numberOf(s) ==
    LET ds == DigitPrefix(s)
        rest == SubSeq(s, Len(ds) + 1, Len(s))
    IN  IF rest # <<>> /\ Head(rest) = "e"
        THEN DigitsValue(ds, 0) * Pow10(DigitsValue(DigitPrefix(Tail(rest)), 0))
        ELSE DigitsValue(ds, 0)

\* the En fields carry the En text, or the Uz text when it is empty; the Uz
\* fields carry the form's text
localizedAsClaimed(scr, f, item) ==
    CASE scr = "stats" ->
            /\ item.descriptionUz = f.descriptionUz
            /\ item.descriptionEn =
                  (IF f.descriptionEn # "" THEN f.descriptionEn ELSE f.descriptionUz)
      [] scr = "steps" ->
            /\ item.titleUz = f.titleUz
            /\ item.titleEn = (IF f.titleEn # "" THEN f.titleEn ELSE f.titleUz)
            /\ item.descriptionUz = f.descriptionUz
            /\ item.descriptionEn =
                  (IF f.descriptionEn # "" THEN f.descriptionEn ELSE f.descriptionUz)
      [] scr = "countries" ->
            /\ item.nameUz = f.nameUz
            /\ item.nameEn = (IF f.nameEn # "" THEN f.nameEn ELSE f.nameUz)

\* every other field carries the form's value
othersAsClaimed(scr, f, item) ==
    CASE scr = "stats" ->
            /\ item.value = numberOf(f.value)
            /\ item.prefix = f.prefix
            /\ item.suffix = f.suffix
      [] scr = "steps" -> TRUE
      [] scr = "countries" -> item.bgText = f.bgText

\* every other field as the code sends it: the stat's value is the integer
\* parseInt reads off the front of the text, a blank bgText is the upper-cased
\* English name that is sent
othersAsSent(scr, f, item) ==
    CASE scr = "stats" ->
            /\ item.value = parseInt(f.value)
            /\ item.prefix = f.prefix
            /\ item.suffix = f.suffix
      [] scr = "steps" -> TRUE
      [] scr = "countries" ->
            item.bgText = (IF f.bgText # "" THEN f.bgText ELSE toUpperCase(item.nameEn))

validSubmit == Submit /\ ~missingRequired(screen, formData)

\* C5 as claimed: a valid Submit step sends the localized fields with the En
\* fallback and every other field equal to the form's value
C5_PayloadEqualsForm ==
    [][validSubmit =>
          /\ localizedAsClaimed(screen, formData, saveReq'.item)
          /\ othersAsClaimed(screen, formData, saveReq'.item)]_vars

\* C5, amended: a valid Submit step sends the localized fields with the En
\* fallback, the stat's value as parseInt of the text, a blank bgText as the
\* upper-cased English name and every other field as in the form, and leaves the
\* form as typed; typing changes one field only; once the backend has applied
\* the upsert its list holds exactly that item under that id
C5_Payload ==
    /\ [][validSubmit =>
            /\ localizedAsClaimed(screen, formData, saveReq'.item)
            /\ othersAsSent(screen, formData, saveReq'.item)
            /\ formData' = formData]_vars
    /\ [][Type => \E f \in Fields(screen) :
                     \A g \in (Fields(screen) \cup {"id"}) \ {f} :
                        formData'[g] = formData[g]]_vars
    /\ [][ServerUpsert =>
            find(serverGetAll(server'), saveReq.item.id) = <<saveReq.item>>]_vars

\* a country saved with its English name and bgText left blank: the backend
\* holds it with the Uzbek name as English name
C5_FallbackSaved ==
    /\ screen = "countries"
    /\ saveReq.stage = "ok"
    /\ sent = 1
    /\ formData.nameEn = ""
    /\ formData.id = saveReq.item.id
    /\ saveReq.item.nameEn = "grant"
    /\ find(serverGetAll(server), saveReq.item.id) = <<saveReq.item>>

-----------------------------------------------------------------------------
(* C6: a created item goes last.                                           *)

generated == {generateId(k) : k \in 0..(genCount - 1)}

\* C6: when the backend creates an item that came from Add, submitted against an
\* up-to-date list, list() then returns it in last place
C6_NewItemIsLast ==
    [][(/\ ServerUpsert
        /\ saveReq.item.id \in generated
        /\ saveReq.item.id \notin Ids(server)
        /\ status = "success" /\ data = serverGetAll(server)
        /\ saveReq.item.order = Len(data) + 1)
       => serverGetAll(server')[Len(server')].id = saveReq.item.id]_vars

-----------------------------------------------------------------------------
(* C7: the id of an upsert.                                                *)

\* C7: while Adding the form holds the id generated by the Add that opened it,
\* while Editing(id) it holds id; typing changes no id; a valid Submit sends the
\* form's id and generates none; the backend's upsert changes no other id
C7_StableId ==
    /\ [](isAdding => formData.id = generateId(genCount - 1))
    /\ [](editingId # Null => formData.id = editingId)
    /\ [][Add => formData'.id = generateId(genCount) /\ formData'.id \notin generated]_vars
    /\ [][validSubmit =>
            /\ saveReq'.item.id = formData.id
            /\ genCount' = genCount]_vars
    /\ [][ServerUpsert => Ids(server') = Ids(server) \cup {saveReq.item.id}]_vars

\* the second request of the session is an upsert issued from Adding, in flight
\* with the id Add generated
C7_AddInFlight ==
    /\ isAdding
    /\ saveReq.stage = "sent"
    /\ sent = 2
    /\ saveReq.item.id = generateId(genCount - 1)

-----------------------------------------------------------------------------
(* C8: only Confirm deletes.                                               *)

\* C8: a delete request appears only on a Confirm step, taken while the dialog
\* is open, and it carries the id the dialog is open for; clicking Delete on a
\* row or closing the dialog issues no request; the success of a delete
\* invalidates the list and closes the confirmation
C8_DeleteOnlyByConfirm ==
    /\ [][(deleteReq' # deleteReq /\ deleteReq'.stage = "sent") =>
            /\ Confirm
            /\ dialogOpen
            /\ deleteReq'.id = deleteId
            /\ deleteReq.stage = "none"]_vars
    /\ [][(ClickDelete \/ CloseDialog) => UNCHANGED <<netVars, sent, server>>]_vars
    /\ [][DeleteSuccess => fetching' /\ deleteId' = Null]_vars

\* the delete of the second row has been confirmed and is in flight
C8_Confirmed ==
    /\ deleteReq.stage = "sent"
    /\ dialogOpen
    /\ deleteId = deleteReq.id
    /\ Len(data) > 1
    /\ deleteId = data[2].id

-----------------------------------------------------------------------------
(* C9: delete, then list.                                                  *)

\* C9: once the backend has applied delete(id) its list does not contain id and
\* keeps every other item; a delete of an id the backend does not hold is never
\* reported a success, and its failure raises the error notification and leaves
\* the cached list, its validity and the backend's collection as they were
C9_DeleteThenList ==
    /\ [][ServerDelete =>
            /\ deleteReq.id \notin Ids(serverGetAll(server'))
            /\ Ids(serverGetAll(server')) = Ids(server) \ {deleteReq.id}]_vars
    /\ [][(deleteReq.stage = "sent" /\ deleteReq.id \notin Ids(server)) =>
            deleteReq'.stage # "ok"]_vars
    /\ [][(DeleteError /\ deleteReq.id \notin Ids(server)) =>
            /\ toast' = "error"
            /\ UNCHANGED <<data, fetching, status, server>>]_vars

\* a delete is in flight for an id that is still in the cached list but that the
\* backend no longer holds, and its failure can be delivered
C9_DeleteOfMissing ==
    /\ deleteReq.stage = "sent"
    /\ deleteReq.id \notin Ids(server)
    /\ deleteReq.id \in Ids(data)
    /\ ~fetching
    /\ ENABLED DeleteError

-----------------------------------------------------------------------------
(* C10: reorder, then list.                                                *)

isPermutation(s, t) ==
    /\ Len(s) = Len(t)
    /\ \A i \in 1..Len(t) : \E j \in 1..Len(s) : s[j] = t[i]
    /\ \A i, j \in 1..Len(s) : s[i] = s[j] => i = j

\* the ids of ids that list holds come in list in the sequence ids gives them
inSequenceOf(list, ids) ==
    \A i, j \in 1..Len(list) :
        (/\ i < j
         /\ \E k \in 1..Len(ids) : ids[k] = list[i].id
         /\ \E k \in 1..Len(ids) : ids[k] = list[j].id)
        => IndexOf(ids, list[i].id) < IndexOf(ids, list[j].id)

\* C10 as claimed: when the success of a reorder invalidates the cache, the
\* backend's list is in the sequence the reorder sent, also while only drag
\* gestures have been made and others are still in flight
C10_ListFollowsEveryReorder ==
    [][(ReorderSuccess /\ sent = Cardinality(reorderReqs)) =>
          \A r \in reorderReqs \ reorderReqs' :
              inSequenceOf(serverGetAll(server), r.ids)]_vars

\* C10, amended: a drag sends a permutation of the ids of the cached list that
\* differs from the cached sequence; when the backend applies a reorder its
\* list is in the sequence sent; the success of a reorder invalidates the
\* cache; and at that moment the backend's list is in the sequence sent if no
\* other mutation of the collection was sent in the session
C10_ReorderThenList ==
    /\ [][Drag => \E r \in reorderReqs' \ reorderReqs :
                     /\ reorderReqs' = reorderReqs \cup {r}
                     /\ isPermutation(r.ids, IdSeq(data))
                     /\ r.ids # IdSeq(data)]_vars
    /\ [][ServerReorder =>
            \A r \in reorderReqs \ reorderReqs' :
                inSequenceOf(serverGetAll(server'), r.ids)]_vars
    /\ [][ReorderSuccess => fetching']_vars
    /\ [][(ReorderSuccess /\ sent = 1) =>
            \A r \in reorderReqs \ reorderReqs' :
                inSequenceOf(serverGetAll(server), r.ids)]_vars

\* two drags made on the same cached list of three are in flight with different
\* sequences, and the backend has applied one of them
C10_TwoDragsInFlight ==
    /\ Len(data) = 3
    /\ \E r1, r2 \in reorderReqs :
          /\ r1.ids # r2.ids
          /\ r1.stage = "ok"
          /\ r2.stage = "sent"
          /\ IdSeq(serverGetAll(server)) = r1.ids

-----------------------------------------------------------------------------
(* C11: every failed mutation is notified.                                 *)

\* C11: the failure of an upsert, a delete or a reorder raises the error
\* notification and leaves the mode, the form, the confirmation and the cached
\* list as they were
C11_FailedMutationNotified ==
    [][(SaveError \/ DeleteError \/ ReorderError) =>
          /\ toast' = "error"
          /\ UNCHANGED <<editorVars, deleteId, data>>]_vars

-----------------------------------------------------------------------------
(* C26: a save response and the form that is open when it arrives.         *)

\* the id of the item the open form is for
formItem == IF editingId # Null THEN editingId ELSE formData.id

\* C26: the success of an upsert of item A, delivered while the form is open for
\* a different item B, leaves B's form open with its input
C26_ResponseKeepsOtherForm ==
    [][(SaveSuccess /\ formOpen /\ formItem # saveReq.item.id)
          => UNCHANGED editorVars]_vars

-----------------------------------------------------------------------------
(* C27: a deleted item and the form that was open on it.                   *)

\* C27: when the success of delete(id) is delivered the editor is not left in
\* Editing(id), and the backend never creates an item from a form whose id was
\* neither generated by Add nor held by the backend
C27_DeletedItemNotRecreated ==
    [][/\ DeleteSuccess => editingId' # deleteReq.id
       /\ ServerUpsert =>
             saveReq.item.id \in Ids(server) \cup generated]_vars

-----------------------------------------------------------------------------
(* C30: the order an edit carries.                                         *)

\* C30: a valid Submit from Editing(id), with id in the cached list, sends the
\* order the cached list holds for id
C30_EditKeepsOrder ==
    [][(validSubmit /\ editingId # Null /\ find(data, editingId) # <<>>)
          => saveReq'.item.order = find(data, editingId)[1].order]_vars

-----------------------------------------------------------------------------
(* The Session Store (useAuth), the gateway's interceptors and the routes  *)

\* requests that may be in flight at once
MaxAuthInFlight == 2

Tokens == {"t1", "t2"}
\* what `user` holds when a 200 response carries no data
Undefined == "undefined"
\* !user
noUser(u) == u \in {Null, Undefined}

\* an editor page with nothing going on
collectionAtRest ==
    /\ screen = "stats"
    /\ editingId = Null
    /\ formData = emptyForm("stats")
    /\ isAdding = FALSE
    /\ deleteId = Null
    /\ data = <<>>
    /\ status = "pending"
    /\ fetching = FALSE
    /\ saveReq = NoReq
    /\ deleteReq = NoReq
    /\ reorderReqs = {}
    /\ server = initialStore("stats")
    /\ token = TRUE
    /\ genCount = 0
    /\ sent = 0

\* create(persist(...)): user: null, isLoading: true, and the token the persist
\* middleware reads back from its storage entry
createStore(st) == [user |-> Null, token |-> st.admin_auth, isLoading |-> TRUE]

\* the application is loaded at /login or at a protected route
SessionInit ==
    /\ collectionAtRest
    /\ chatAtRest
    /\ otherPagesAtRest
    /\ toast = "none"
    /\ location \in {"login", "page"}
    /\ storage \in [admin_token : {Null, "t1"}, admin_auth : {Null, "t1"}]
    /\ session = createStore(storage)
    /\ authReqs = {}
    /\ checked = FALSE
    /\ validated = {}
    /\ outcome = "none"

\* set({ user, token, isLoading: false }) with localStorage's admin_token as
\* adminToken after the step; persist writes the partialized token through
setState(u, t, adminToken) ==
    /\ session' = [user |-> u, token |-> t, isLoading |-> FALSE]
    /\ storage' = [admin_token |-> adminToken, admin_auth |-> t]

\* window.location.href = '/login': the application is loaded again
pageLoad(st) ==
    /\ storage' = st
    /\ session' = createStore(st)
    /\ authReqs' = {}
    /\ checked' = FALSE
    /\ validated' = {}
    /\ location' = "login"

\* ProtectedRoute's render
ProtectedRoute ==
    IF session.isLoading THEN "PageLoading"
    ELSE IF noUser(session.user) THEN "Navigate" ELSE "children"

\* the Layout, and with it the logout button and the pages, is on screen
layoutShown == location = "page" /\ ProtectedRoute = "children"

(* --- the gateway *)

\* a response interceptor that leaves localStorage alone
removeToken_not(st) == st

\* response interceptor on status 401: localStorage.removeItem('admin_token')
removeToken(st) == [st EXCEPT !.admin_token = Null]

(* --- checkAuth *)

\* a checkAuth whose early return sets nothing
checkAuth_silentReturn ==
    IF storage.admin_token = Null
    THEN UNCHANGED <<session, storage, authReqs>>
    ELSE /\ authReqs' = authReqs \cup {[kind |-> "getMe", token |-> storage.admin_token]}
         /\ UNCHANGED <<session, storage>>

\* checkAuth up to its await: without a stored token it sets the logged-out
\* state and returns, with one it calls authApi.getMe()
checkAuth ==
    IF storage.admin_token = Null
    THEN /\ setState(Null, Null, storage.admin_token)
         /\ UNCHANGED authReqs
    ELSE /\ authReqs' = authReqs \cup {[kind |-> "getMe", token |-> storage.admin_token]}
         /\ UNCHANGED <<session, storage>>

\* AppRoutes: useEffect(() => { checkAuth(); }, [checkAuth])
CheckAuth ==
    /\ ~checked
    /\ checked' = TRUE
    /\ checkAuth
    /\ UNCHANGED <<validated, outcome, location, collectionVars, otherPagesVars, toast, chatVars>>

\* GET /auth/me answers 200 with the user: set({ user, token, isLoading: false })
GetMeSuccess ==
    /\ \E r \in authReqs :
          /\ r.kind = "getMe"
          /\ setState("admin", r.token, storage.admin_token)
          /\ validated' = validated \cup {r.token}
          /\ authReqs' = authReqs \ {r}
    /\ UNCHANGED <<checked, outcome, location, collectionVars, otherPagesVars, toast, chatVars>>

\* GET /auth/me answers 200 with a body that has no data: response.data.data is
\* undefined, nothing throws, and set({ user, token, isLoading: false }) runs
GetMeMalformed ==
    /\ \E r \in authReqs :
          /\ r.kind = "getMe"
          /\ setState(Undefined, r.token, storage.admin_token)
          /\ authReqs' = authReqs \ {r}
    /\ UNCHANGED <<checked, validated, outcome, location, collectionVars, otherPagesVars, toast,
                   chatVars>>

\* checkAuth's catch: localStorage.removeItem('admin_token'); set(logged out)
checkAuthCatch == setState(Null, Null, Null)

\* the call is rejected: a network error, a timeout, a status other than 401
GetMeError ==
    /\ \E r \in authReqs :
          /\ r.kind = "getMe"
          /\ checkAuthCatch
          /\ authReqs' = authReqs \ {r}
    /\ UNCHANGED <<checked, validated, outcome, location, collectionVars, otherPagesVars, toast,
                   chatVars>>

\* GET /auth/me answers 401: the interceptor, then checkAuth's catch, then the
\* application loads again at /login
GetMeUnauthorized ==
    /\ \E r \in authReqs : r.kind = "getMe"
    /\ pageLoad([admin_token |-> removeToken(storage).admin_token, admin_auth |-> Null])
    /\ UNCHANGED <<outcome, collectionVars, otherPagesVars, toast, chatVars>>

(* --- login *)

\* the Login page, mounted with the application, submits the form while nobody
\* is signed in: login(email, password)
Login ==
    /\ location = "login"
    /\ checked
    /\ noUser(session.user)
    /\ Cardinality(authReqs) < MaxAuthInFlight
    /\ [kind |-> "login", token |-> Null] \notin authReqs
    /\ authReqs' = authReqs \cup {[kind |-> "login", token |-> Null]}
    /\ UNCHANGED <<session, storage, checked, validated, outcome, location,
                   collectionVars, otherPagesVars, toast, chatVars>>

\* if (token && user): localStorage.setItem('admin_token', token); set(...);
\* return true
loginOnSuccess(t) ==
    /\ setState("admin", t, t)
    /\ validated' = validated \cup {t}
    /\ outcome' = "true"

LoginSuccess ==
    /\ \E r \in authReqs :
          /\ r.kind = "login"
          /\ authReqs' = authReqs \ {r}
    /\ \E t \in Tokens : loginOnSuccess(t)
    /\ UNCHANGED <<checked, location, collectionVars, otherPagesVars, toast, chatVars>>

\* the 200 response lacks user or token: return false
loginOnMalformed ==
    /\ outcome' = "false"
    /\ UNCHANGED <<session, storage, validated>>

LoginMalformed ==
    /\ \E r \in authReqs :
          /\ r.kind = "login"
          /\ authReqs' = authReqs \ {r}
    /\ loginOnMalformed
    /\ UNCHANGED <<checked, location, collectionVars, otherPagesVars, toast, chatVars>>

\* a catch that clears the token and keeps the user
loginCatch_keepsUser ==
    /\ setState(session.user, Null, storage.admin_token)
    /\ outcome' = "thrown"
    /\ UNCHANGED validated

\* catch (error): set({ user: null, token: null, isLoading: false }); throw error
loginCatch ==
    /\ setState(Null, Null, storage.admin_token)
    /\ outcome' = "thrown"
    /\ UNCHANGED validated

\* the call is rejected with anything but a 401
LoginError ==
    /\ \E r \in authReqs :
          /\ r.kind = "login"
          /\ authReqs' = authReqs \ {r}
    /\ loginCatch
    /\ UNCHANGED <<checked, location, collectionVars, otherPagesVars, toast, chatVars>>

\* POST /auth/login answers 401: the interceptor, then login's catch, then the
\* application loads again at /login
LoginUnauthorized ==
    /\ \E r \in authReqs : r.kind = "login"
    /\ pageLoad([admin_token |-> removeToken(storage).admin_token, admin_auth |-> Null])
    /\ outcome' = "thrown"
    /\ UNCHANGED <<collectionVars, otherPagesVars, toast, chatVars>>

(* --- logout *)

\* a logout that leaves localStorage's admin_token in place
logout_keepsToken == setState(Null, Null, storage.admin_token)

\* logout: localStorage.removeItem('admin_token'); set(logged out)
logout == setState(Null, Null, Null)

\* Layout's handleLogout: logout(); navigate('/login')
Logout ==
    /\ layoutShown
    /\ logout
    /\ location' = "login"
    /\ UNCHANGED <<authReqs, checked, validated, outcome, collectionVars, otherPagesVars, toast,
                   chatVars>>

(* --- the routes and the pages' own requests *)

\* a route change inside the application to a protected route: the Login page
\* after a successful login, or the catch-all route
OpenProtected ==
    /\ location = "login"
    /\ location' = "page"
    /\ UNCHANGED <<sessionVars, collectionVars, otherPagesVars, toast, chatVars>>

\* if (!user) return <Navigate to="/login" replace />
Redirect ==
    /\ location = "page"
    /\ ProtectedRoute = "Navigate"
    /\ location' = "login"
    /\ UNCHANGED <<sessionVars, collectionVars, otherPagesVars, toast, chatVars>>

\* a page under the Layout calls one of the domain accessors
PageRequest ==
    /\ layoutShown
    /\ Cardinality(authReqs) < MaxAuthInFlight
    /\ authReqs' = authReqs \cup {[kind |-> "other", token |-> Null]}
    /\ UNCHANGED <<session, storage, checked, validated, outcome, location,
                   collectionVars, otherPagesVars, toast, chatVars>>

\* it is answered, or fails, with anything but a 401
PageResponse ==
    /\ \E r \in authReqs :
          /\ r.kind = "other"
          /\ authReqs' = authReqs \ {r}
    /\ UNCHANGED <<session, storage, checked, validated, outcome, location,
                   collectionVars, otherPagesVars, toast, chatVars>>

\* it is answered 401: the interceptor, then the application loads again
PageUnauthorized ==
    /\ \E r \in authReqs : r.kind = "other"
    /\ pageLoad(removeToken(storage))
    /\ UNCHANGED <<outcome, collectionVars, otherPagesVars, toast, chatVars>>

SessionNext ==
    \/ CheckAuth \/ GetMeSuccess \/ GetMeMalformed \/ GetMeError \/ GetMeUnauthorized
    \/ Login \/ LoginSuccess \/ LoginMalformed \/ LoginError \/ LoginUnauthorized
    \/ Logout \/ OpenProtected \/ Redirect
    \/ PageRequest \/ PageResponse \/ PageUnauthorized

SessionSpec == SessionInit /\ [][SessionNext]_vars

\* every request is answered, the mount effect runs, a redirect is followed
SessionFair ==
    /\ WF_vars(CheckAuth)
    /\ WF_vars(GetMeSuccess \/ GetMeMalformed \/ GetMeError \/ GetMeUnauthorized)
    /\ WF_vars(LoginSuccess \/ LoginMalformed \/ LoginError \/ LoginUnauthorized)
    /\ WF_vars(PageResponse \/ PageUnauthorized)

SessionLive == SessionSpec /\ SessionFair

-----------------------------------------------------------------------------
(* C12: who is signed in holds a validated token.                          *)

-----------------------------------------------------------------------------
(* C13: a failed login.                                                    *)

\* C13: a login that is rejected, or answered without user or token, ends with
\* user = null and token = null and has not written localStorage's token
C13_FailedLoginLogsOut ==
    [][(LoginError \/ LoginMalformed) =>
          /\ session'.user = Null
          /\ session'.token = Null
          /\ storage'.admin_token = storage.admin_token]_vars

-----------------------------------------------------------------------------
(* C14: checkAuth.                                                         *)

\* C14: when the who-am-I call of checkAuth fails, by rejection or by a malformed
\* response, localStorage's token is removed and the session is logged out
C14_FailedCheckLogsOut ==
    [][(GetMeError \/ GetMeMalformed) =>
          /\ storage'.admin_token = Null
          /\ session' = [user |-> Null, token |-> Null, isLoading |-> FALSE]]_vars

-----------------------------------------------------------------------------
(* C15: a 401 from any endpoint.                                           *)

Unauthorized401 == GetMeUnauthorized \/ LoginUnauthorized \/ PageUnauthorized

\* C15: a 401 answer to a who-am-I call, a login or any other request removes
\* localStorage's token, leaves the session without user, puts the application
\* at the login page and leaves no request behind to be sent again
C15_UnauthorizedSignsOut ==
    [][Unauthorized401 =>
          /\ storage'.admin_token = Null
          /\ session'.user = Null
          /\ location' = "login"
          /\ authReqs' = {}]_vars

\* a signed-in operator's page has a request in flight that can be answered 401
C15_RequestOfSignedIn ==
    /\ layoutShown
    /\ storage.admin_token # Null
    /\ session.user = "admin"
    /\ ENABLED PageUnauthorized

-----------------------------------------------------------------------------
(* C16: the session leaves its checking state.                             *)

\* C16: the session starts with isLoading = true; while isLoading is true a
\* protected route renders the loading placeholder only; given that requests are
\* answered, isLoading = true always leads to isLoading = false; and isLoading
\* goes from false to true in no step of login, logout or checkAuth (only when a
\* 401 loads the application again)
C16_CheckingEnds ==
    /\ session.isLoading
    /\ [](session.isLoading => ProtectedRoute = "PageLoading")
    /\ <>(~session.isLoading)
    /\ (session.isLoading ~> ~session.isLoading)
    /\ [][(~session.isLoading /\ session'.isLoading) => Unauthorized401]_vars

\* checkAuth's who-am-I call has been answered with the user
C16_Checked ==
    /\ ~session.isLoading
    /\ checked
    /\ session.user = "admin"
    /\ outcome = "none"
    /\ authReqs = {}

-----------------------------------------------------------------------------
(* C17: logout.                                                            *)

\* C17: wherever the logout button is on screen logout can be taken, and the
\* step removes localStorage's token and sets user = null, token = null,
\* isLoading = false, whatever requests are in flight
C17_LogoutClears ==
    /\ [](layoutShown => ENABLED Logout)
    /\ [][Logout =>
            /\ storage'.admin_token = Null
            /\ storage'.admin_auth = Null
            /\ session' = [user |-> Null, token |-> Null, isLoading |-> FALSE]]_vars

\* logout was called after a login of this page load while checkAuth's who-am-I
\* call is still in flight
C17_LoggedOutDuringCheck ==
    /\ session = [user |-> Null, token |-> Null, isLoading |-> FALSE]
    /\ storage.admin_token = Null
    /\ validated # {}
    /\ \E r \in authReqs : r.kind = "getMe"

-----------------------------------------------------------------------------
(* C25: a session check answered after a later login or logout.            *)

\* the who-am-I call of the mount effect is answered
GetMeAnswered == GetMeSuccess \/ GetMeMalformed \/ GetMeError \/ GetMeUnauthorized

\* C25: when the who-am-I call is answered after a login has succeeded, the user
\* and the token that login stored stay, in the store and in localStorage; when
\* it is answered after a logout, nobody is signed in and no token is stored
C25_LateCheckChangesNothing ==
    [][GetMeAnswered =>
          /\ ~noUser(session.user) =>
                /\ session'.user = session.user
                /\ session'.token = session.token
                /\ storage' = storage
          /\ (noUser(session.user) /\ ~session.isLoading
                 /\ storage.admin_token = Null) =>
                /\ noUser(session'.user)
                /\ session'.token = Null
                /\ storage' = storage]_vars

-----------------------------------------------------------------------------
(* The Chat page                                                           *)

\* the remote parties that have a conversation
Conversations == {"u1", "u2"}
\* what the operator types into the textarea
Messages == {<<>>, <<" ">>, <<" ", "h", "i", " ">>}

\* String.prototype.trim
RECURSIVE trimStart(_)
trimStart(m) == IF m # <<>> /\ Head(m) = " " THEN trimStart(Tail(m)) ELSE m
RECURSIVE trimEnd(_)
trimEnd(m) ==
    IF m # <<>> /\ m[Len(m)] = " " THEN trimEnd(SubSeq(m, 1, Len(m) - 1)) ELSE m
trim(m) == trimEnd(trimStart(m))

\* the Chat page has just been opened by a signed-in operator
ChatInit ==
    /\ collectionAtRest
    /\ sessionAtRest
    /\ otherPagesAtRest
    /\ toast = "none"
    /\ location = "page"
    /\ selectedUserId = Null
    /\ newMessage = <<>>
    /\ deleteDialogOpen = FALSE
    /\ sendReq = NoReq
    /\ conversationDeletes = {}
    /\ historyFetching = {}
    /\ conversationsFetching = TRUE
    /\ conversationsStatus = "pending"

\* if (conversationsLoading) return <PageLoading />
conversationsLoading == conversationsStatus = "pending" /\ conversationsFetching
\* the page is on screen and not covered by the dialog's backdrop
chatShown == location = "page" /\ ~conversationsLoading
chatUsable == chatShown /\ ~deleteDialogOpen

\* a 401 on any of the page's requests: the interceptor, then the application
\* loads again at /login and the page's state and requests are gone
chatUnauthorized ==
    /\ pageLoad(removeToken(storage))
    /\ selectedUserId' = Null
    /\ newMessage' = <<>>
    /\ deleteDialogOpen' = FALSE
    /\ sendReq' = NoReq
    /\ conversationDeletes' = {}
    /\ historyFetching' = {}
    /\ conversationsFetching' = FALSE
    /\ conversationsStatus' = "pending"
    /\ toast' = "none"
    /\ UNCHANGED <<collectionVars, otherPagesVars, outcome>>

\* the operator signs in again and opens the Chat page
ChatMount ==
    /\ location = "login"
    /\ location' = "page"
    /\ session' = [user |-> "admin", token |-> "t1", isLoading |-> FALSE]
    /\ storage' = [admin_token |-> "t1", admin_auth |-> "t1"]
    /\ checked' = TRUE
    /\ validated' = {"t1"}
    /\ conversationsFetching' = TRUE
    /\ toast' = "none"
    /\ UNCHANGED <<authReqs, outcome, collectionVars, otherPagesVars, selectedUserId, newMessage,
                   deleteDialogOpen, sendReq, conversationDeletes, historyFetching,
                   conversationsStatus>>

(* --- the two queries *)

\* refetchInterval: 5000 on ['chat-conversations']; a tick during a fetch starts
\* no second one
ConversationsTick ==
    /\ location = "page"
    /\ ~conversationsFetching
    /\ conversationsFetching' = TRUE
    /\ toast' = "none"
    /\ UNCHANGED <<sessionVars, collectionVars, otherPagesVars, location, selectedUserId, newMessage,
                   deleteDialogOpen, sendReq, conversationDeletes, historyFetching,
                   conversationsStatus>>

\* the list arrives, or the GET fails with anything but a 401
ConversationsResponse ==
    /\ location = "page"
    /\ conversationsFetching
    /\ conversationsFetching' = FALSE
    /\ conversationsStatus' \in {"success", "error"}
    /\ toast' = "none"
    /\ UNCHANGED <<sessionVars, collectionVars, otherPagesVars, location, selectedUserId, newMessage,
                   deleteDialogOpen, sendReq, conversationDeletes, historyFetching>>

ConversationsUnauthorized ==
    /\ location = "page"
    /\ conversationsFetching
    /\ chatUnauthorized

\* a history query that refetches every conversation in the cache
fetchHistory_all(id) == historyFetching' = Conversations

\* the ['chat-history', id] query fetches; a fetch under way is not doubled
fetchHistory(id) == historyFetching' = historyFetching \cup {id}

\* onClick={() => setSelectedUserId(conv.odId)}: the history query's key changes
\* to the clicked conversation, which fetches unless its cached data is fresh
SelectConversation ==
    /\ chatUsable
    /\ conversationsStatus = "success"
    /\ \E id \in Conversations \ {selectedUserId} :
          /\ selectedUserId' = id
          /\ \/ fetchHistory(id)
             \/ UNCHANGED historyFetching
    /\ toast' = "none"
    /\ UNCHANGED <<sessionVars, collectionVars, otherPagesVars, location, newMessage,
                   deleteDialogOpen, sendReq, conversationDeletes,
                   conversationsFetching, conversationsStatus>>

\* enabled: !!selectedUserId, refetchInterval: 3000
HistoryTick ==
    /\ location = "page"
    /\ selectedUserId # Null
    /\ selectedUserId \notin historyFetching
    /\ fetchHistory(selectedUserId)
    /\ toast' = "none"
    /\ UNCHANGED <<sessionVars, collectionVars, otherPagesVars, location, selectedUserId, newMessage,
                   deleteDialogOpen, sendReq, conversationDeletes,
                   conversationsFetching, conversationsStatus>>

\* a history GET is answered, or fails with anything but a 401
HistoryResponse ==
    /\ location = "page"
    /\ \E id \in historyFetching : historyFetching' = historyFetching \ {id}
    /\ toast' = "none"
    /\ UNCHANGED <<sessionVars, collectionVars, otherPagesVars, location, selectedUserId, newMessage,
                   deleteDialogOpen, sendReq, conversationDeletes,
                   conversationsFetching, conversationsStatus>>

HistoryUnauthorized ==
    /\ location = "page"
    /\ historyFetching # {}
    /\ chatUnauthorized

(* --- the textarea and sendMessageMutation *)

\* onChange={(e) => setNewMessage(e.target.value)}; the textarea is rendered
\* while a conversation is selected
TypeMessage ==
    /\ chatUsable
    /\ selectedUserId # Null
    /\ \E m \in Messages \ {newMessage} : newMessage' = m
    /\ toast' = "none"
    /\ UNCHANGED <<sessionVars, collectionVars, otherPagesVars, location, selectedUserId,
                   deleteDialogOpen, sendReq, conversationDeletes, historyFetching,
                   conversationsFetching, conversationsStatus>>

\* a handleSendMessage that does not look at sendMessageMutation.isPending
handleSendMessage_whilePending ==
    IF selectedUserId = Null \/ trim(newMessage) = <<>>
    THEN UNCHANGED sendReq
    ELSE sendReq' = [stage |-> "sent", odId |-> selectedUserId,
                     message |-> trim(newMessage)]

\* handleSendMessage
handleSendMessage ==
    IF selectedUserId = Null \/ trim(newMessage) = <<>> \/ sendReq.stage # "none"
    THEN UNCHANGED sendReq
    ELSE sendReq' = [stage |-> "sent", odId |-> selectedUserId,
                     message |-> trim(newMessage)]

\* the send button's onClick, or Enter in the textarea
Send ==
    /\ chatUsable
    /\ selectedUserId # Null
    /\ handleSendMessage
    /\ toast' = "none"
    /\ UNCHANGED <<sessionVars, collectionVars, otherPagesVars, location, selectedUserId, newMessage,
                   deleteDialogOpen, conversationDeletes, historyFetching,
                   conversationsFetching, conversationsStatus>>

\* queryClient.invalidateQueries({ queryKey: ['chat-history'] }): of the cached
\* history queries the one in use, the selected conversation's, refetches
invalidateHistory ==
    IF selectedUserId = Null
    THEN UNCHANGED historyFetching
    ELSE fetchHistory(selectedUserId)

\* queryClient.invalidateQueries({ queryKey: ['chat-conversations'] })
invalidateConversations == conversationsFetching' = TRUE

\* an onSuccess that keeps the typed text
sendOnSuccess_keepsText ==
    /\ UNCHANGED newMessage
    /\ invalidateHistory
    /\ invalidateConversations
    /\ toast' = "none"

\* sendMessageMutation.onSuccess
sendOnSuccess ==
    /\ newMessage' = <<>>
    /\ invalidateHistory
    /\ invalidateConversations
    /\ toast' = "none"

\* sendMessageMutation.onError
sendOnError ==
    /\ toast' = "error"
    /\ UNCHANGED <<newMessage, historyFetching, conversationsFetching>>

\* POST /telegram/admin/reply/:odId is answered 2xx
SendSuccess ==
    /\ location = "page"
    /\ sendReq.stage = "sent"
    /\ sendReq' = NoReq
    /\ sendOnSuccess
    /\ UNCHANGED <<sessionVars, collectionVars, otherPagesVars, location, selectedUserId,
                   deleteDialogOpen, conversationDeletes, conversationsStatus>>

\* it fails with anything but a 401; mutations are not retried
SendError ==
    /\ location = "page"
    /\ sendReq.stage = "sent"
    /\ sendReq' = NoReq
    /\ sendOnError
    /\ UNCHANGED <<sessionVars, collectionVars, otherPagesVars, location, selectedUserId,
                   deleteDialogOpen, conversationDeletes, conversationsStatus>>

SendUnauthorized ==
    /\ location = "page"
    /\ sendReq.stage = "sent"
    /\ chatUnauthorized

(* --- deleteConversationMutation and its ConfirmDialog *)

\* the header's delete button: onClick={() => setDeleteDialogOpen(true)}
OpenDeleteDialog ==
    /\ chatUsable
    /\ selectedUserId # Null
    /\ deleteDialogOpen' = TRUE
    /\ toast' = "none"
    /\ UNCHANGED <<sessionVars, collectionVars, otherPagesVars, location, selectedUserId, newMessage,
                   sendReq, conversationDeletes, historyFetching,
                   conversationsFetching, conversationsStatus>>

\* onClose={() => setDeleteDialogOpen(false)}
CloseDeleteDialog ==
    /\ chatShown
    /\ deleteDialogOpen
    /\ deleteDialogOpen' = FALSE
    /\ toast' = "none"
    /\ UNCHANGED <<sessionVars, collectionVars, otherPagesVars, location, selectedUserId, newMessage,
                   sendReq, conversationDeletes, historyFetching,
                   conversationsFetching, conversationsStatus>>

\* an onConfirm that deletes the first conversation of the list
onConfirmDelete_first ==
    /\ conversationDeletes' = conversationDeletes \cup {"u1"}
    /\ deleteDialogOpen' = FALSE

\* onConfirm: if (selectedUserId) deleteConversationMutation.mutate(selectedUserId);
\* setDeleteDialogOpen(false)
onConfirmDelete ==
    /\ conversationDeletes' =
          IF selectedUserId # Null
          THEN conversationDeletes \cup {selectedUserId}
          ELSE conversationDeletes
    /\ deleteDialogOpen' = FALSE

\* the dialog's confirm button
ConfirmDelete ==
    /\ chatShown
    /\ deleteDialogOpen
    /\ onConfirmDelete
    /\ toast' = "none"
    /\ UNCHANGED <<sessionVars, collectionVars, otherPagesVars, location, selectedUserId, newMessage,
                   sendReq, historyFetching, conversationsFetching,
                   conversationsStatus>>

\* deleteConversationMutation.onSuccess
deleteConversationOnSuccess ==
    /\ toast' = "success"
    /\ selectedUserId' = Null
    /\ invalidateConversations

\* deleteConversationMutation.onError
deleteConversationOnError ==
    /\ toast' = "error"
    /\ UNCHANGED <<selectedUserId, conversationsFetching>>

\* DELETE /telegram/admin/conversation/:odId is answered 2xx
DeleteConversationSuccess ==
    /\ location = "page"
    /\ \E id \in conversationDeletes :
          conversationDeletes' = conversationDeletes \ {id}
    /\ deleteConversationOnSuccess
    /\ UNCHANGED <<sessionVars, collectionVars, otherPagesVars, location, newMessage,
                   deleteDialogOpen, sendReq, historyFetching, conversationsStatus>>

\* it fails with anything but a 401
DeleteConversationError ==
    /\ location = "page"
    /\ \E id \in conversationDeletes :
          conversationDeletes' = conversationDeletes \ {id}
    /\ deleteConversationOnError
    /\ UNCHANGED <<sessionVars, collectionVars, otherPagesVars, location, newMessage,
                   deleteDialogOpen, sendReq, historyFetching, conversationsStatus>>

DeleteConversationUnauthorized ==
    /\ location = "page"
    /\ conversationDeletes # {}
    /\ chatUnauthorized

ChatNext ==
    \/ ChatMount
    \/ ConversationsTick \/ ConversationsResponse \/ ConversationsUnauthorized
    \/ SelectConversation \/ HistoryTick \/ HistoryResponse \/ HistoryUnauthorized
    \/ TypeMessage \/ Send \/ SendSuccess \/ SendError \/ SendUnauthorized
    \/ OpenDeleteDialog \/ CloseDeleteDialog \/ ConfirmDelete
    \/ DeleteConversationSuccess \/ DeleteConversationError
    \/ DeleteConversationUnauthorized

ChatSpec == ChatInit /\ [][ChatNext]_vars

-----------------------------------------------------------------------------
(* C18: history is polled for the selected conversation only.              *)

\* C18: a history fetch is issued only for the conversation that is selected
\* when the step ends; while a conversation is selected the polling tick is due
\* unless its fetch is still under way, and the tick issues that conversation's
\* fetch; with no conversation selected no history tick is due; the
\* conversation list's tick is due whatever the selection
C18_HistoryOnlyForSelected ==
    /\ [][\A id \in historyFetching' \ historyFetching : selectedUserId' = id]_vars
    /\ []((location = "page" /\ selectedUserId # Null
                /\ selectedUserId \notin historyFetching) => ENABLED HistoryTick)
    /\ [][HistoryTick =>
            /\ selectedUserId \in historyFetching'
            /\ UNCHANGED selectedUserId]_vars
    /\ [](selectedUserId = Null => ~ENABLED HistoryTick)
    /\ []((location = "page" /\ ~conversationsFetching) => ENABLED ConversationsTick)

\* u1 was deselected for u2 while its history fetch was under way: both
\* fetches are in flight and no history tick is due
C18_Deselected ==
    /\ selectedUserId = "u2"
    /\ historyFetching = {"u1", "u2"}
    /\ ~ENABLED HistoryTick

-----------------------------------------------------------------------------
(* C19: the outcome of a chat send.                                        *)

\* C19 as claimed: whenever a send fails, whatever the failure, the input text
\* and the selection are as they were
C19_AnyFailureKeepsInput ==
    [][(SendError \/ SendUnauthorized) => UNCHANGED <<newMessage, selectedUserId>>]_vars

\* C19, amended: a send that succeeds clears the input and has the conversation
\* list and the selected conversation's history refetched; a send that fails
\* with anything but a 401 raises the error notification and leaves input,
\* selection and both caches as they were; a 401 removes the token and loads
\* the application again at the login page
C19_SendOutcome ==
    /\ [][SendSuccess =>
            /\ newMessage' = <<>>
            /\ conversationsFetching'
            /\ (selectedUserId # Null => selectedUserId \in historyFetching')
            /\ UNCHANGED selectedUserId]_vars
    /\ [][SendError =>
            /\ toast' = "error"
            /\ UNCHANGED <<newMessage, selectedUserId, historyFetching,
                           conversationsFetching>>]_vars
    /\ [][SendUnauthorized =>
            /\ storage'.admin_token = Null
            /\ location' = "login"
            /\ newMessage' = <<>>]_vars

\* a send is in flight, the operator has typed on, and either answer can be
\* delivered
C19_SendInFlight ==
    /\ sendReq.stage = "sent"
    /\ sendReq.odId = selectedUserId
    /\ trim(newMessage) # <<>>
    /\ ~conversationsFetching
    /\ historyFetching = {}
    /\ ENABLED SendSuccess
    /\ ENABLED SendError

-----------------------------------------------------------------------------
(* C20: deleting a conversation.                                           *)

\* C20 as claimed: whenever a conversation delete fails, whatever the failure,
\* the selection is as it was
C20_AnyFailureKeepsSelection ==
    [][(DeleteConversationError \/ DeleteConversationUnauthorized) =>
          UNCHANGED selectedUserId]_vars

\* C20, amended: a delete request appears only on the dialog's Confirm step and
\* is for the conversation selected then; opening or closing the dialog issues
\* none; its success clears the selection and has the conversation list
\* refetched; its failure with anything but a 401 leaves the selection as it
\* was; a 401 loads the application again at the login page
C20_DeleteConversation ==
    /\ [][\A id \in conversationDeletes' \ conversationDeletes :
            /\ ConfirmDelete
            /\ deleteDialogOpen
            /\ selectedUserId = id]_vars
    /\ [][(OpenDeleteDialog \/ CloseDeleteDialog) => UNCHANGED conversationDeletes]_vars
    /\ [][DeleteConversationSuccess =>
            /\ selectedUserId' = Null
            /\ conversationsFetching']_vars
    /\ [][DeleteConversationError =>
            /\ toast' = "error"
            /\ UNCHANGED <<selectedUserId, conversationsFetching>>]_vars
    /\ [][DeleteConversationUnauthorized =>
            /\ location' = "login"
            /\ selectedUserId' = Null]_vars

\* the delete of u2 was confirmed and is in flight with u2 still selected
C20_DeleteInFlight ==
    /\ conversationDeletes = {"u2"}
    /\ selectedUserId = "u2"
    /\ ~deleteDialogOpen
    /\ toast = "none"

-----------------------------------------------------------------------------
(* C29: when a reply is sent.                                              *)

\* C29: a reply request is issued only while a conversation is selected, the
\* trimmed input is not empty and no send is in flight; it carries the trimmed
\* input and the conversation selected at that moment
C29_SendGuarded ==
    [][(sendReq' # sendReq /\ sendReq'.stage = "sent") =>
          /\ selectedUserId # Null
          /\ trim(newMessage) # <<>>
          /\ sendReq.stage = "none"
          /\ sendReq'.message = trim(newMessage)
          /\ sendReq'.odId = selectedUserId]_vars

\* a reply typed with blanks around it is in flight without them, to the
\* conversation that is selected
C29_TrimmedInFlight ==
    /\ sendReq.stage = "sent"
    /\ sendReq.odId = selectedUserId
    /\ newMessage = <<" ", "h", "i", " ">>
    /\ sendReq.message = <<"h", "i">>

-----------------------------------------------------------------------------
(* The Chat page's day groups (groupedMessages)                            *)

\* messages in one history response
MaxMessages == 3
\* how many days before today the oldest message was written
MaxDaysAgo == 2

\* createdAt: the calendar day, counted back from today, and the hour
Timestamps == [daysAgo : 0..MaxDaysAgo, hour : {9, 17}]

\* toLocaleDateString('uz-UZ', { day, month, year }): one text per calendar day
toLocaleDateString(t) == <<"kun", "-">> \o toString(t.daysAgo)

\* formatMessageDate
formatMessageDate(t) ==
    IF t.daysAgo = 0 THEN <<"Bugun">>
    ELSE IF t.daysAgo = 1 THEN <<"Kecha">>
    ELSE toLocaleDateString(t)

\* the history responses: each message has the id of its place in the response
Histories ==
    UNION {{[i \in 1..n |-> [id |-> i, createdAt |-> ts[i]]] :
                ts \in [1..n -> Timestamps]} : n \in 0..MaxMessages}

GroupingInit ==
    /\ collectionAtRest
    /\ sessionAtRest
    /\ chatAtRest
    /\ csvAtRest
    /\ applicationsAtRest
    /\ uploadAtRest
    /\ toast = "none"
    /\ location = "page"
    /\ chatHistory \in Histories
    /\ groups = <<>>
    /\ reduced = 0

\* the reduce callback: if (!groups[date]) groups[date] = [];
\* groups[date].push(message)
reduceCallback(g, message) ==
    LET date == formatMessageDate(message.createdAt)
        g1 == IF \E i \in 1..Len(g) : g[i].date = date
              THEN g
              ELSE Append(g, [date |-> date, messages |-> <<>>])
    IN  [i \in 1..Len(g1) |->
            IF g1[i].date = date
            THEN [g1[i] EXCEPT !.messages = Append(@, message)]
            ELSE g1[i]]

\* one step of chatHistory.messages.reduce(...)
ReduceMessage ==
    /\ reduced < Len(chatHistory)
    /\ groups' = reduceCallback(groups, chatHistory[reduced + 1])
    /\ reduced' = reduced + 1
    /\ UNCHANGED <<chatHistory, coreVars, csvVars, applicationsVars, uploadVars>>

GroupingNext == ReduceMessage

GroupingSpec == GroupingInit /\ [][GroupingNext]_vars

RECURSIVE flatten(_)
\* Object.entries(groupedMessages).map(([date, messages]) => messages.map(...)):
\* the messages in the order they are on screen
flatten(g) == IF g = <<>> THEN <<>> ELSE Head(g).messages \o flatten(Tail(g))

-----------------------------------------------------------------------------
(* C21: the day groups keep the sequence of the response.                  *)

\* C21: once the whole response is grouped, the groups read in the order they
\* are displayed are the messages in the order the server returned them
C21_GroupsKeepSequence ==
    reduced = Len(chatHistory) => flatten(groups) = chatHistory

-----------------------------------------------------------------------------
(* The Applications page's CSV export (exportToCSV)                        *)

\* rows on the displayed page
MaxRows == 2

\* the statuses statusConfig knows, and one it does not
statusConfig ==
    [s \in {<<"n", "e", "w">>, <<"d", "o", "n", "e">>} |->
        IF s = <<"n", "e", "w">> THEN [label |-> <<"Y", "a", "n", "g", "i">>]
        ELSE [label |-> <<"T", "a", "y", "y", "o", "r">>]]

\* the applications the backend may return: country and notes are optional, a
\* text may hold a double quote, a comma or a line break
Applications ==
    [name : {<<"A", "l", "i">>, <<"A", "\"", "B", "\"">>, <<"A", ",", "B">>},
     phone : {<<"9", "9", "8">>},
     country : {Null, <<"U", "Z">>},
     status : {<<"n", "e", "w">>, <<"o", "l", "d">>},
     formType : {<<"h", "e", "r", "o">>},
     notes : {Null, <<"\"">>, <<"a", "\n", "b">>},
     createdAt : {[day |-> 6, hour |-> 9]}]

Pages == UNION {[1..n -> Applications] : n \in 0..MaxRows}

\* new Date(createdAt).toLocaleString('uz-UZ'): the date, a comma, the time
toLocaleString(t) == toString(t.day) \o <<",", " ">> \o toString(t.hour)

headers ==
    << <<"I", "s", "m">>, <<"T", "e", "l", "e", "f", "o", "n">>,
       <<"D", "a", "v", "l", "a", "t">>, <<"S", "t", "a", "t", "u", "s">>,
       <<"F", "o", "r", "m", "a">>, <<"I", "z", "o", "h">>, <<"S", "a", "n", "a">> >>

\* a || '' on an optional text
orEmpty(a) == IF a = Null THEN <<>> ELSE a

\* statusConfig[app.status]?.label || app.status
statusLabel(st) == IF st \in DOMAIN statusConfig THEN statusConfig[st].label ELSE st

\* the array exportToCSV builds for one application
rowOf(app) ==
    <<app.name, app.phone, orEmpty(app.country), statusLabel(app.status),
      app.formType, orEmpty(app.notes), toLocaleString(app.createdAt)>>

RECURSIVE replaceQuotes(_)
\* String(cell).replace(/"/g, '""')
replaceQuotes(cell) ==
    IF cell = <<>> THEN <<>>
    ELSE (IF Head(cell) = "\"" THEN <<"\"", "\"">> ELSE <<Head(cell)>>)
            \o replaceQuotes(Tail(cell))

\* a cell wrapped in quotes with its own quotes left single
quoteCell_plain(cell) == <<"\"">> \o cell \o <<"\"">>

\* `"${String(cell).replace(/"/g, '""')}"`
quoteCell(cell) == <<"\"">> \o replaceQuotes(cell) \o <<"\"">>

RECURSIVE join(_, _)
\* Array.prototype.join(sep) on texts
join(texts, sep) ==
    IF texts = <<>> THEN <<>>
    ELSE IF Len(texts) = 1 THEN texts[1]
    ELSE texts[1] \o sep \o join(Tail(texts), sep)

\* [headers, ...rows].map(row => row.map(quote).join(',')).join('\n')
csvOf(applications) ==
    LET rows == <<headers>> \o [i \in 1..Len(applications) |-> rowOf(applications[i])]
    IN  join([i \in 1..Len(rows) |->
                 join([k \in 1..Len(rows[i]) |-> quoteCell(rows[i][k])], <<",">>)],
             <<"\n">>)

CsvInit ==
    /\ collectionAtRest
    /\ sessionAtRest
    /\ chatAtRest
    /\ groupingAtRest
    /\ applicationsAtRest
    /\ uploadAtRest
    /\ toast = "none"
    /\ location = "page"
    /\ items \in Pages
    /\ csvContent = Null

\* handleExport: if (data?.items) exportToCSV(data.items); the button is
\* disabled while the page has no rows
Export ==
    /\ items # <<>>
    /\ csvContent' = csvOf(items)
    /\ UNCHANGED <<items, coreVars, groupingVars, applicationsVars, uploadVars>>

CsvNext == Export

CsvSpec == CsvInit /\ [][CsvNext]_vars

-----------------------------------------------------------------------------
(* C23: the exported text.                                                 *)

\* the lines of a text: what "\n" separates
lineCount(text) == Len(SelectSeq(text, LAMBDA c : c = "\n")) + 1

RECURSIVE readCell(_, _, _, _)
\* a reader of comma separated values.  One cell from position i: quoted text,
\* a doubled quote inside it standing for one quote; `at` is where the cell ends
readCell(text, i, inQuotes, cell) ==
    IF i > Len(text) THEN [cell |-> cell, at |-> i]
    ELSE IF inQuotes
         THEN IF text[i] = "\""
              THEN IF i < Len(text) /\ text[i + 1] = "\""
                   THEN readCell(text, i + 2, TRUE, Append(cell, "\""))
                   ELSE readCell(text, i + 1, FALSE, cell)
              ELSE readCell(text, i + 1, TRUE, Append(cell, text[i]))
         ELSE IF text[i] = "\"" THEN readCell(text, i + 1, TRUE, cell)
         ELSE IF text[i] \in {",", "\n"} THEN [cell |-> cell, at |-> i]
         ELSE readCell(text, i + 1, FALSE, Append(cell, text[i]))

RECURSIVE readRecord(_, _, _)
\* the cells up to the end of the line
readRecord(text, i, record) ==
    LET r == readCell(text, i, FALSE, <<>>)
    IN  IF r.at <= Len(text) /\ text[r.at] = ","
        THEN readRecord(text, r.at + 1, Append(record, r.cell))
        ELSE [record |-> Append(record, r.cell), at |-> r.at]

RECURSIVE readRecords(_, _, _)
readRecords(text, i, records) ==
    LET r == readRecord(text, i, <<>>)
    IN  IF r.at <= Len(text)
        THEN readRecords(text, r.at + 1, Append(records, r.record))
        ELSE Append(records, r.record)

parseCsv(text) == readRecords(text, 1, <<>>)

\* the cells the export is to hold for one application
cellsAsClaimed(app) ==
    <<app.name, app.phone,
      IF app.country = Null THEN <<>> ELSE app.country,
      IF app.status \in DOMAIN statusConfig THEN statusConfig[app.status].label
      ELSE app.status,
      app.formType,
      IF app.notes = Null THEN <<>> ELSE app.notes,
      toLocaleString(app.createdAt)>>

\* every cell of the text sits between double quotes
allQuoted(text) ==
    /\ text # <<>>
    /\ Head(text) = "\""
    /\ text[Len(text)] = "\""

\* line breaks inside the field values of the page
embeddedBreaks ==
    LET RECURSIVE count(_)
        count(rows) ==
            IF rows = <<>> THEN 0
            ELSE lineCount(join(cellsAsClaimed(Head(rows)), <<>>)) - 1
                    + count(Tail(rows))
    IN  count(items)

\* C23 as claimed: the export of N rows has N+1 lines, whatever the fields hold
C23_OneLinePerRow ==
    csvContent # Null => lineCount(csvContent) = Len(items) + 1

\* C23: read back as comma separated values, the export of N rows is N+1
\* records, the header and then one record per row with the cells [name, phone,
\* country, status label, formType, notes, createdAt]; it has one line per
\* record and one more for every line break inside a field
C23_OneRecordPerRow ==
    csvContent # Null =>
        /\ parseCsv(csvContent) =
              <<headers>> \o [i \in 1..Len(items) |-> cellsAsClaimed(items[i])]
        /\ allQuoted(csvContent)
        /\ lineCount(csvContent) = Len(items) + 1 + embeddedBreaks

\* two rows were exported, with a quote in a name and a quote in a note
C23_QuotesExported ==
    /\ csvContent # Null
    /\ Len(items) = 2
    /\ items[1].name = <<"A", "\"", "B", "\"">>
    /\ items[2].notes = <<"\"">>
    /\ items[2].country = Null

-----------------------------------------------------------------------------
(* The Application Triage List (Applications) and the Dashboard            *)

\* update and delete requests issued in one run
MaxAppSent == 1
\* applications on one page of the backend's paginated answer
PageSize == 1

StatusFilters == {"all"} \cup Statuses
Searches == {"", "ali"}

\* what the backend holds when the operator signs in
initialApps ==
    <<[id |-> "p1", name |-> "ali", status |-> "new"],
      [id |-> "p2", name |-> "bob", status |-> "contacted"]>>

appIds(apps) == {apps[i].id : i \in 1..Len(apps)}

\* GET /applications?page&status&search: the matching applications, cut into
\* pages; a page past the last one is empty
serverGetApplications(apps, key) ==
    LET hits == SelectSeq(apps, LAMBDA a :
                    /\ key.status = "all" \/ a.status = key.status
                    /\ key.search = "" \/ a.name = key.search)
        first == (key.page - 1) * PageSize + 1
        last == IF key.page * PageSize < Len(hits) THEN key.page * PageSize
                ELSE Len(hits)
    IN  [items |-> [i \in 1..(IF last >= first THEN last - first + 1 ELSE 0) |->
                       hits[first + i - 1]],
         totalPages |-> (Len(hits) + PageSize - 1) \div PageSize]

\* GET /applications/stats: the counts by status
serverGetStats(apps) ==
    [st \in Statuses |-> Len(SelectSeq(apps, LAMBDA a : a.status = st))]

\* PUT /applications/:id
serverUpdateApplication(apps, id, st) ==
    [i \in 1..Len(apps) |-> IF apps[i].id = id THEN [apps[i] EXCEPT !.status = st]
                            ELSE apps[i]]

\* DELETE /applications/:id
serverDeleteApplication(apps, id) == SelectSeq(apps, LAMBDA a : a.id # id)

\* queryKey: ['applications', { page, status, search: debouncedSearch }]
queryKey == [page |-> page, status |-> statusFilter, search |-> debouncedSearch]

ApplicationsInit ==
    /\ collectionAtRest
    /\ sessionAtRest
    /\ chatAtRest
    /\ groupingAtRest
    /\ csvAtRest
    /\ uploadAtRest
    /\ toast = "none"
    /\ location = "page"
    /\ appRoute = "dashboard"
    /\ page = 1
    /\ statusFilter = "all"
    /\ debouncedSearch = ""
    /\ appsQuery = emptyAppsQuery
    /\ statsQuery = [emptyStatsQuery EXCEPT !.fetching = TRUE]
    /\ selectedApp = Null
    /\ deleteApp = Null
    /\ updateReqs = {}
    /\ appDeleteReq = NoReq
    /\ backendApps = initialApps
    /\ appSent = 0

\* the table with its rows is on screen: data?.items?.length
tableShown == appRoute = "applications" /\ appsQuery.loaded /\ appsQuery.items # <<>>
\* the detail modal or the confirmation dialog covers the page
appModalOpen == selectedApp # Null \/ deleteApp # Null
tableUsable == tableShown /\ ~appModalOpen

\* the query of a key the page had not asked for before: a fetch starts, and
\* placeholderData keeps the previous result on screen until it is answered
observeKey(q) == [q EXCEPT !.fetching = TRUE, !.invalidated = FALSE]

\* query.invalidate() and the refetch of the active queries: an entry is marked;
\* an observed query fetches again, and drops the fetch under way if it holds
\* data already; a query nobody observes, or one still waiting for its first
\* data, is left to whatever fetch it has under way
invalidateApps(q, active) ==
    IF ~q.loaded /\ ~q.fetching THEN q
    ELSE [q EXCEPT !.invalidated = TRUE, !.fetching = (active \/ @)]

invalidateStats(q, active) ==
    IF ~q.loaded /\ ~q.fetching THEN q
    ELSE IF active /\ q.loaded
         THEN [q EXCEPT !.invalidated = TRUE, !.fetching = TRUE, !.answered = FALSE]
         ELSE [q EXCEPT !.invalidated = TRUE]

\* what the window.location.href = '/login' of a 401 leaves: the login page and
\* no component state, no cache, no request whose callback could run
appsReload ==
    /\ appRoute' = "login"
    /\ page' = 1
    /\ statusFilter' = "all"
    /\ debouncedSearch' = ""
    /\ appsQuery' = emptyAppsQuery
    /\ statsQuery' = emptyStatsQuery
    /\ selectedApp' = Null
    /\ deleteApp' = Null
    /\ updateReqs' = {}
    /\ appDeleteReq' = NoReq
    /\ UNCHANGED <<backendApps, appSent>>
    /\ UNCHANGED <<coreVars, groupingVars, csvVars, uploadVars>>

(* --- the routes *)

\* a query is observed again: it fetches when it has no data or was
\* invalidated, and, depending on the time since its data arrived (staleTime:
\* 30000), when it has become stale
mountFetches(q) ==
    IF ~q.loaded \/ q.invalidated THEN {TRUE} ELSE {TRUE, FALSE}

\* the operator signs in again after a 401: the index route is the Dashboard
SignIn ==
    /\ appRoute = "login"
    /\ appRoute' = "dashboard"
    /\ statsQuery' = [emptyStatsQuery EXCEPT !.fetching = TRUE]
    /\ UNCHANGED <<page, statusFilter, debouncedSearch, appsQuery, selectedApp,
                   deleteApp, updateReqs, appDeleteReq, backendApps, appSent>>
    /\ UNCHANGED <<coreVars, groupingVars, csvVars, uploadVars>>

\* the sidebar's link to /applications: the Dashboard unmounts, the
\* Applications page mounts with its initial state
OpenApplications ==
    /\ appRoute = "dashboard"
    /\ appRoute' = "applications"
    /\ page' = 1 /\ statusFilter' = "all" /\ debouncedSearch' = ""
    /\ selectedApp' = Null /\ deleteApp' = Null
    /\ LET key == [page |-> 1, status |-> "all", search |-> ""]
       IN  IF appsQuery.key = key /\ (appsQuery.loaded \/ appsQuery.fetching)
           THEN \E f \in mountFetches(appsQuery) :
                   appsQuery' = [appsQuery EXCEPT !.fetching = (f \/ @)]
           ELSE appsQuery' = [observeKey(appsQuery) EXCEPT !.key = key]
    /\ UNCHANGED <<statsQuery, updateReqs, appDeleteReq, backendApps, appSent>>
    /\ UNCHANGED <<coreVars, groupingVars, csvVars, uploadVars>>

\* the sidebar's link to /: the Applications page unmounts, the Dashboard mounts
OpenDashboard ==
    /\ appRoute = "applications"
    /\ appRoute' = "dashboard"
    /\ page' = 1 /\ statusFilter' = "all" /\ debouncedSearch' = ""
    /\ selectedApp' = Null /\ deleteApp' = Null
    /\ \E f \in mountFetches(statsQuery) :
          statsQuery' = IF f /\ ~statsQuery.fetching
                        THEN [statsQuery EXCEPT !.fetching = TRUE, !.answered = FALSE]
                        ELSE statsQuery
    /\ updateReqs' = {[r EXCEPT !.live = FALSE] : r \in updateReqs}
    /\ appDeleteReq' = IF appDeleteReq.stage = "none" THEN NoReq
                       ELSE [appDeleteReq EXCEPT !.live = FALSE]
    /\ UNCHANGED <<appsQuery, backendApps, appSent>>
    /\ UNCHANGED <<coreVars, groupingVars, csvVars, uploadVars>>

(* --- the two queries *)

\* the backend answers GET /applications/stats with what it holds
StatsAnswered ==
    /\ appRoute # "login"
    /\ statsQuery.fetching /\ ~statsQuery.answered
    /\ statsQuery' = [statsQuery EXCEPT !.answered = TRUE,
                                        !.answer = serverGetStats(backendApps)]
    /\ UNCHANGED <<appRoute, page, statusFilter, debouncedSearch, appsQuery,
                   selectedApp, deleteApp, updateReqs, appDeleteReq, backendApps,
                   appSent>>
    /\ UNCHANGED <<coreVars, groupingVars, csvVars, uploadVars>>

\* the answer arrives: the query holds it and is no longer invalidated
StatsFetchSuccess ==
    /\ appRoute # "login"
    /\ statsQuery.fetching /\ statsQuery.answered
    /\ statsQuery' = [loaded |-> TRUE, byStatus |-> statsQuery.answer,
                      fetching |-> FALSE, answered |-> FALSE,
                      answer |-> emptyStatsQuery.answer, invalidated |-> FALSE]
    /\ UNCHANGED <<appRoute, page, statusFilter, debouncedSearch, appsQuery,
                   selectedApp, deleteApp, updateReqs, appDeleteReq, backendApps,
                   appSent>>
    /\ UNCHANGED <<coreVars, groupingVars, csvVars, uploadVars>>

\* the fetch fails for good (after its one retry) with anything but a 401
StatsFetchError ==
    /\ appRoute # "login"
    /\ statsQuery.fetching
    /\ statsQuery' = [statsQuery EXCEPT !.fetching = FALSE, !.answered = FALSE,
                                        !.answer = emptyStatsQuery.answer]
    /\ UNCHANGED <<appRoute, page, statusFilter, debouncedSearch, appsQuery,
                   selectedApp, deleteApp, updateReqs, appDeleteReq, backendApps,
                   appSent>>
    /\ UNCHANGED <<coreVars, groupingVars, csvVars, uploadVars>>

\* GET /applications is answered for the key on screen
AppsFetchSuccess ==
    /\ appRoute # "login"
    /\ appsQuery.fetching
    /\ LET r == serverGetApplications(backendApps, appsQuery.key)
       IN  appsQuery' = [loaded |-> TRUE, key |-> appsQuery.key,
                         of |-> appsQuery.key,
                         items |-> [i \in 1..Len(r.items) |-> r.items[i].id],
                         totalPages |-> r.totalPages,
                         fetching |-> FALSE, invalidated |-> FALSE]
    /\ UNCHANGED <<appRoute, page, statusFilter, debouncedSearch, statsQuery,
                   selectedApp, deleteApp, updateReqs, appDeleteReq, backendApps,
                   appSent>>
    /\ UNCHANGED <<coreVars, groupingVars, csvVars, uploadVars>>

\* the fetch fails for good with anything but a 401; a placeholder is shown
\* only while the fetch is pending
AppsFetchError ==
    /\ appRoute # "login"
    /\ appsQuery.fetching
    /\ appsQuery' = IF appsQuery.of = appsQuery.key
                    THEN [appsQuery EXCEPT !.fetching = FALSE]
                    ELSE [emptyAppsQuery EXCEPT !.key = appsQuery.key]
    /\ UNCHANGED <<appRoute, page, statusFilter, debouncedSearch, statsQuery,
                   selectedApp, deleteApp, updateReqs, appDeleteReq, backendApps,
                   appSent>>
    /\ UNCHANGED <<coreVars, groupingVars, csvVars, uploadVars>>

\* either GET is answered 401
FetchUnauthorizedApps ==
    /\ appRoute # "login"
    /\ appsQuery.fetching \/ statsQuery.fetching
    /\ appsReload

(* --- filters and pagination *)

\* the page asks for another key
setKey(key) == appsQuery' = [observeKey(appsQuery) EXCEPT !.key = key]

\* onChange={(e) => setStatus(e.target.value)}
setStatus(v) ==
    /\ statusFilter' = v
    /\ page' = page
    /\ setKey([queryKey EXCEPT !.status = v])

SetStatus ==
    /\ appRoute = "applications" /\ ~appModalOpen
    /\ \E v \in StatusFilters \ {statusFilter} : setStatus(v)
    /\ UNCHANGED <<appRoute, debouncedSearch, statsQuery, selectedApp, deleteApp,
                   updateReqs, appDeleteReq, backendApps, appSent>>
    /\ UNCHANGED <<coreVars, groupingVars, csvVars, uploadVars>>

\* handleSearchChange: 300 ms after a key stroke its timer runs
\* setDebouncedSearch(value); no timer is ever cleared
SearchChange ==
    /\ appRoute = "applications" /\ ~appModalOpen
    /\ \E v \in Searches \ {debouncedSearch} :
          /\ debouncedSearch' = v
          /\ setKey([queryKey EXCEPT !.search = v])
    /\ UNCHANGED <<appRoute, page, statusFilter, statsQuery, selectedApp, deleteApp,
                   updateReqs, appDeleteReq, backendApps, appSent>>
    /\ UNCHANGED <<coreVars, groupingVars, csvVars, uploadVars>>

\* the pagination is rendered under the table while data.totalPages > 1
paginationShown == tableUsable /\ appsQuery.totalPages > 1

\* "Keyingi": setPage((p) => Math.min(data.totalPages, p + 1)), disabled on the
\* last page
NextPage ==
    /\ paginationShown
    /\ page # appsQuery.totalPages
    /\ page' = (IF page + 1 < appsQuery.totalPages THEN page + 1
                ELSE appsQuery.totalPages)
    /\ setKey([queryKey EXCEPT !.page = page'])
    /\ UNCHANGED <<appRoute, statusFilter, debouncedSearch, statsQuery, selectedApp,
                   deleteApp, updateReqs, appDeleteReq, backendApps, appSent>>
    /\ UNCHANGED <<coreVars, groupingVars, csvVars, uploadVars>>

\* "Oldingi": setPage((p) => Math.max(1, p - 1)), disabled on page 1
PreviousPage ==
    /\ paginationShown
    /\ page # 1
    /\ page' = (IF page - 1 > 1 THEN page - 1 ELSE 1)
    /\ setKey([queryKey EXCEPT !.page = page'])
    /\ UNCHANGED <<appRoute, statusFilter, debouncedSearch, statsQuery, selectedApp,
                   deleteApp, updateReqs, appDeleteReq, backendApps, appSent>>
    /\ UNCHANGED <<coreVars, groupingVars, csvVars, uploadVars>>

(* --- updateMutation *)

\* updateMutation.mutate({ id, data }); `live` while the page that issued the
\* request is still mounted
mutateUpdate(id, st) ==
    /\ appSent < MaxAppSent
    /\ \A r \in updateReqs : r.id # id
    /\ updateReqs' = updateReqs \cup
                        {[id |-> id, status |-> st, stage |-> "sent", live |-> TRUE]}
    /\ appSent' = appSent + 1

\* a row's status select: handleStatusChange(app._id, e.target.value)
ChangeStatus ==
    /\ tableUsable
    /\ \E i \in 1..Len(appsQuery.items) : \E st \in Statuses :
          mutateUpdate(appsQuery.items[i], st)
    /\ UNCHANGED <<appRoute, page, statusFilter, debouncedSearch, appsQuery,
                   statsQuery, selectedApp, deleteApp, appDeleteReq, backendApps>>
    /\ UNCHANGED <<coreVars, groupingVars, csvVars, uploadVars>>

\* a row's "Ko'rish" button: setSelectedApp(app)
OpenDetail ==
    /\ tableUsable
    /\ \E i \in 1..Len(appsQuery.items) : selectedApp' = appsQuery.items[i]
    /\ UNCHANGED <<appRoute, page, statusFilter, debouncedSearch, appsQuery,
                   statsQuery, deleteApp, updateReqs, appDeleteReq, backendApps,
                   appSent>>
    /\ UNCHANGED <<coreVars, groupingVars, csvVars, uploadVars>>

\* onClose={() => setSelectedApp(null)}
CloseDetail ==
    /\ appRoute = "applications" /\ selectedApp # Null
    /\ selectedApp' = Null
    /\ UNCHANGED <<appRoute, page, statusFilter, debouncedSearch, appsQuery,
                   statsQuery, deleteApp, updateReqs, appDeleteReq, backendApps,
                   appSent>>
    /\ UNCHANGED <<coreVars, groupingVars, csvVars, uploadVars>>

\* the modal's save button: onUpdate({ status, notes }), not available while
\* updateMutation.isPending
SaveDetail ==
    /\ appRoute = "applications" /\ selectedApp # Null
    /\ \A r \in updateReqs : ~r.live
    /\ \E st \in Statuses : mutateUpdate(selectedApp, st)
    /\ UNCHANGED <<appRoute, page, statusFilter, debouncedSearch, appsQuery,
                   statsQuery, selectedApp, deleteApp, appDeleteReq, backendApps>>
    /\ UNCHANGED <<coreVars, groupingVars, csvVars, uploadVars>>

\* the backend applies PUT /applications/:id and answers 2xx
BackendUpdate ==
    /\ appRoute # "login"
    /\ \E r \in updateReqs :
          /\ r.stage = "sent"
          /\ r.id \in appIds(backendApps)
          /\ backendApps' = serverUpdateApplication(backendApps, r.id, r.status)
          /\ updateReqs' = (updateReqs \ {r}) \cup {[r EXCEPT !.stage = "ok"]}
    /\ UNCHANGED <<appRoute, page, statusFilter, debouncedSearch, appsQuery,
                   statsQuery, selectedApp, deleteApp, appDeleteReq, appSent>>
    /\ UNCHANGED <<coreVars, groupingVars, csvVars, uploadVars>>

\* updateMutation.onSuccess: both invalidations, setSelectedApp(null)
updateOnSuccess(r) ==
    /\ appsQuery' = invalidateApps(appsQuery, appRoute = "applications")
    /\ statsQuery' = invalidateStats(statsQuery, appRoute = "dashboard")
    /\ selectedApp' = IF r.live THEN Null ELSE selectedApp

UpdateSuccess ==
    /\ appRoute # "login"
    /\ \E r \in updateReqs :
          /\ r.stage = "ok"
          /\ updateReqs' = updateReqs \ {r}
          /\ updateOnSuccess(r)
    /\ UNCHANGED <<appRoute, page, statusFilter, debouncedSearch, deleteApp,
                   appDeleteReq, backendApps, appSent>>
    /\ UNCHANGED <<coreVars, groupingVars, csvVars, uploadVars>>

\* the request fails with anything but a 401 (the 404 of a deleted application,
\* a network error) without having been applied: onError raises the toast
UpdateError ==
    /\ appRoute # "login"
    /\ \E r \in updateReqs :
          /\ r.stage = "sent"
          /\ updateReqs' = updateReqs \ {r}
    /\ UNCHANGED <<appRoute, page, statusFilter, debouncedSearch, appsQuery,
                   statsQuery, selectedApp, deleteApp, appDeleteReq, backendApps,
                   appSent>>
    /\ UNCHANGED <<coreVars, groupingVars, csvVars, uploadVars>>

UpdateUnauthorized ==
    /\ appRoute # "login"
    /\ \E r \in updateReqs : r.stage = "sent"
    /\ appsReload

(* --- deleteMutation and its ConfirmDialog *)

\* a row's "O'chirish" button: setDeleteApp(app)
ClickDeleteApp ==
    /\ tableUsable
    /\ \E i \in 1..Len(appsQuery.items) : deleteApp' = appsQuery.items[i]
    /\ UNCHANGED <<appRoute, page, statusFilter, debouncedSearch, appsQuery,
                   statsQuery, selectedApp, updateReqs, appDeleteReq, backendApps,
                   appSent>>
    /\ UNCHANGED <<coreVars, groupingVars, csvVars, uploadVars>>

\* onClose={() => setDeleteApp(null)}
CloseDeleteApp ==
    /\ appRoute = "applications" /\ deleteApp # Null
    /\ deleteApp' = Null
    /\ UNCHANGED <<appRoute, page, statusFilter, debouncedSearch, appsQuery,
                   statsQuery, selectedApp, updateReqs, appDeleteReq, backendApps,
                   appSent>>
    /\ UNCHANGED <<coreVars, groupingVars, csvVars, uploadVars>>

\* onConfirm={() => deleteApp && deleteMutation.mutate(deleteApp._id)}; the
\* button is not available while deleteMutation.isPending
ConfirmDeleteApp ==
    /\ appRoute = "applications" /\ deleteApp # Null
    /\ appDeleteReq.stage = "none"
    /\ appSent < MaxAppSent
    /\ appDeleteReq' = [stage |-> "sent", id |-> deleteApp, live |-> TRUE]
    /\ appSent' = appSent + 1
    /\ UNCHANGED <<appRoute, page, statusFilter, debouncedSearch, appsQuery,
                   statsQuery, selectedApp, deleteApp, updateReqs, backendApps>>
    /\ UNCHANGED <<coreVars, groupingVars, csvVars, uploadVars>>

\* the backend applies DELETE /applications/:id and answers 2xx
BackendDeleteApp ==
    /\ appRoute # "login"
    /\ appDeleteReq.stage = "sent"
    /\ appDeleteReq.id \in appIds(backendApps)
    /\ backendApps' = serverDeleteApplication(backendApps, appDeleteReq.id)
    /\ appDeleteReq' = [appDeleteReq EXCEPT !.stage = "ok"]
    /\ UNCHANGED <<appRoute, page, statusFilter, debouncedSearch, appsQuery,
                   statsQuery, selectedApp, deleteApp, updateReqs, appSent>>
    /\ UNCHANGED <<coreVars, groupingVars, csvVars, uploadVars>>

\* deleteMutation.onSuccess: both invalidations, setDeleteApp(null)
appDeleteOnSuccess ==
    /\ appsQuery' = invalidateApps(appsQuery, appRoute = "applications")
    /\ statsQuery' = invalidateStats(statsQuery, appRoute = "dashboard")
    /\ deleteApp' = IF appDeleteReq.live THEN Null ELSE deleteApp

AppDeleteSuccess ==
    /\ appRoute # "login"
    /\ appDeleteReq.stage = "ok"
    /\ appDeleteReq' = NoReq
    /\ appDeleteOnSuccess
    /\ UNCHANGED <<appRoute, page, statusFilter, debouncedSearch, selectedApp,
                   updateReqs, backendApps, appSent>>
    /\ UNCHANGED <<coreVars, groupingVars, csvVars, uploadVars>>

AppDeleteError ==
    /\ appRoute # "login"
    /\ appDeleteReq.stage = "sent"
    /\ appDeleteReq' = NoReq
    /\ UNCHANGED <<appRoute, page, statusFilter, debouncedSearch, appsQuery,
                   statsQuery, selectedApp, deleteApp, updateReqs, backendApps,
                   appSent>>
    /\ UNCHANGED <<coreVars, groupingVars, csvVars, uploadVars>>

AppDeleteUnauthorized ==
    /\ appRoute # "login"
    /\ appDeleteReq.stage = "sent"
    /\ appsReload

ApplicationsNext ==
    \/ SignIn \/ OpenApplications \/ OpenDashboard
    \/ StatsAnswered \/ StatsFetchSuccess \/ StatsFetchError
    \/ AppsFetchSuccess \/ AppsFetchError \/ FetchUnauthorizedApps
    \/ SetStatus \/ SearchChange \/ NextPage \/ PreviousPage
    \/ ChangeStatus \/ OpenDetail \/ CloseDetail \/ SaveDetail
    \/ BackendUpdate \/ UpdateSuccess \/ UpdateError \/ UpdateUnauthorized
    \/ ClickDeleteApp \/ CloseDeleteApp \/ ConfirmDeleteApp
    \/ BackendDeleteApp \/ AppDeleteSuccess \/ AppDeleteError \/ AppDeleteUnauthorized

ApplicationsSpec == ApplicationsInit /\ [][ApplicationsNext]_vars

-----------------------------------------------------------------------------
(* C28: the page number and the pages there are.                           *)

\* the result for the key on screen has arrived
resultLoaded ==
    /\ appRoute = "applications"
    /\ appsQuery.loaded /\ ~appsQuery.fetching
    /\ appsQuery.of = queryKey

\* C28: once the result for the filter on screen has loaded, the page number is
\* at least 1 and at most the number of pages of that result, or 1 when the
\* result has no page
C28_PageWithinRange ==
    resultLoaded =>
        /\ page >= 1
        /\ page <= (IF appsQuery.totalPages > 1 THEN appsQuery.totalPages ELSE 1)

-----------------------------------------------------------------------------
(* C22: the caches after an update or a delete.                            *)

\* an update or delete of an application is answered 2xx, or fails
mutationSucceeds == UpdateSuccess \/ AppDeleteSuccess
mutationFails ==
    UpdateError \/ AppDeleteError \/ UpdateUnauthorized \/ AppDeleteUnauthorized

\* the step marks the entry of a query and makes it fetch if it is observed
invalidatedBy(q, qAfter, active) ==
    (q.loaded \/ q.fetching) =>
        /\ qAfter.invalidated
        /\ (active /\ q.loaded) => qAfter.fetching

\* the step neither marks the entry nor starts a fetch
untouchedBy(q, qAfter) ==
    /\ qAfter.invalidated => q.invalidated
    /\ qAfter.fetching => q.fetching

\* the Dashboard shows counts that are not waiting for anything
dashboardSettled ==
    /\ appRoute = "dashboard"
    /\ statsQuery.loaded /\ ~statsQuery.fetching /\ ~statsQuery.invalidated
    /\ updateReqs = {}
    /\ appDeleteReq = NoReq

\* the success of an update or a delete marks the entries of the list and of
\* the statistics and makes the one on screen fetch again
C22_SuccessInvalidatesBoth ==
    [][mutationSucceeds =>
          /\ invalidatedBy(appsQuery, appsQuery', appRoute = "applications")
          /\ invalidatedBy(statsQuery, statsQuery', appRoute = "dashboard")]_vars

\* a failed update or delete marks no entry and starts no fetch
C22_FailureInvalidatesNeither ==
    [][mutationFails =>
          /\ untouchedBy(appsQuery, appsQuery')
          /\ untouchedBy(statsQuery, statsQuery')]_vars

\* C22: every successful update or delete invalidates the list and the
\* statistics, so that when the Dashboard's counts are loaded, not invalidated
\* and wait for no fetch and no mutation, they are the counts by status of what
\* the backend holds
C22_SettledCountsAgree ==
    dashboardSettled => statsQuery.byStatus = serverGetStats(backendApps)

-----------------------------------------------------------------------------
\* Image uploads: the hero, programs, countries and testimonials pages.
\* (AboutSettings has a gallery upload of the same shape; no route mounts
\* that page.)  One program, one country and one testimonial stand for the
\* rows of their lists; the target of an upload is the language of the image
\* or, for the avatar, the testimonial's id.

MaxUploadSent == 1

UploadScreens == {"hero", "program", "country", "avatar"}

\* File.type of the files the operator can hand to an input or drop on the
\* hero card; the `accept` attribute of an input is a hint to the file
\* picker and filters nothing
Types == {"image/jpeg", "image/gif", "application/pdf"}
\* File.size, on both sides of the two caps
Sizes == {5 * 1024 * 1024, 5 * 1024 * 1024 + 1, 10 * 1024 * 1024, 10 * 1024 * 1024 + 1}
Files == [size : Sizes, type : Types]

targetsOf(s) == IF s = "avatar" THEN {"t1"} ELSE Languages

\* the hero page is on screen with its settings loaded; the hero's uz image
\* is there or not, no other image has been uploaded yet
UploadInit ==
    /\ collectionAtRest
    /\ sessionAtRest
    /\ chatAtRest
    /\ groupingAtRest
    /\ csvAtRest
    /\ applicationsAtRest
    /\ toast = "none"
    /\ location = "page"
    /\ uploadScreen = "hero"
    /\ uploading = Null
    /\ uploadReqs = {}
    /\ \E t \in {Null, "image/jpeg"} :
         images = [s \in Slots |-> IF s = <<"hero", "uz">> THEN t ELSE Null]
    /\ imageQueries = images
    /\ uploadToast = "none"
    /\ uploadSent = 0

\* a page's handler lets the file through to uploadMutation.mutate
heroAccepts(file) ==
    /\ file.type \in {"image/jpeg", "image/png", "image/webp"}
    /\ ~(file.size > 10 * 1024 * 1024)

imageAccepts(file) == ~(file.size > 10 * 1024 * 1024)

avatarAccepts(file) == ~(file.size > 5 * 1024 * 1024)

accepts(s, file) ==
    CASE s = "hero" -> heroAccepts(file)
      [] s \in {"program", "country"} -> imageAccepts(file)
      [] s = "avatar" -> avatarAccepts(file)

\* the input or drop zone of the slot can be used: the hero card's buttons
\* are disabled while its language uploads, its drop zone is there while
\* the card has no image; a program's and a testimonial's input is
\* rendered in place of the missing image; a country's inputs are always
\* there
inputShown(s, target) ==
    CASE s = "hero" -> imageQueries[<<s, target>>] = Null \/ uploading # target
      [] s = "country" -> TRUE
      [] OTHER -> imageQueries[<<s, target>>] = Null

\* setUploading...(target); uploadMutation.mutate({ ..., file })
mutateUpload(s, target, file) ==
    /\ uploadSent < MaxUploadSent
    /\ uploading' = target
    /\ uploadReqs' = uploadReqs \cup {[screen |-> s, target |-> target, file |-> file,
                                       stage |-> "sent", live |-> TRUE,
                                       n |-> uploadSent]}
    /\ uploadSent' = uploadSent + 1
    /\ uploadToast' = "none"
    /\ UNCHANGED <<uploadScreen, images, imageQueries>>

\* toast.error(...); return
rejectUpload ==
    /\ uploadToast' = "error"
    /\ UNCHANGED <<uploadScreen, uploading, uploadReqs, images, imageQueries, uploadSent>>

\* a file reaches the handler of the page on screen
Upload(s, target, file) ==
    /\ uploadScreen = s
    /\ inputShown(s, target)
    /\ IF accepts(s, file) THEN mutateUpload(s, target, file) ELSE rejectUpload
    /\ UNCHANGED <<coreVars, groupingVars, csvVars, applicationsVars>>

\* HeroSettings.handleUpload(language)(file)
handleUpload == \E language \in Languages, file \in Files : Upload("hero", language, file)

\* ProgramsSettings.handleImageUpload(programId, language, file)
handleImageUpload_program ==
    \E language \in Languages, file \in Files : Upload("program", language, file)

\* CountriesSettings.handleImageUpload(countryId, language, file)
handleImageUpload_country ==
    \E language \in Languages, file \in Files : Upload("country", language, file)

\* TestimonialsSettings.handleAvatarUpload(testimonialId, file)
handleAvatarUpload == \E file \in Files : Upload("avatar", "t1", file)

\* the sidebar's link to another of the pages (after a reload, the sign-in
\* and the first load of the page): the page mounts with its initial state,
\* the requests of the page that unmounts go on
OpenUploadScreen(s) ==
    /\ s # uploadScreen
    /\ uploadScreen' = s
    /\ uploading' = Null
    /\ uploadReqs' = {[r EXCEPT !.live = FALSE] : r \in uploadReqs}
    /\ imageQueries' = IF uploadScreen = "login" THEN images ELSE imageQueries
    /\ uploadToast' = "none"
    /\ UNCHANGED <<images, uploadSent>>
    /\ UNCHANGED <<coreVars, groupingVars, csvVars, applicationsVars>>

\* a query of the page on screen is fetched again (its invalidation, its
\* staleness on mount, the window's focus) and holds the backend's images
RefetchImages ==
    /\ uploadScreen \in UploadScreens
    /\ imageQueries # images
    /\ imageQueries' = images
    /\ UNCHANGED <<uploadScreen, uploading, uploadReqs, images, uploadToast, uploadSent>>
    /\ UNCHANGED <<coreVars, groupingVars, csvVars, applicationsVars>>

\* the backend handles POST .../image: it stores the file as the image of
\* the slot, or refuses it
BackendUpload(r) ==
    /\ r \in uploadReqs /\ r.stage = "sent"
    /\ \/ /\ images' = [images EXCEPT ![<<r.screen, r.target>>] = r.file.type]
          /\ uploadReqs' = (uploadReqs \ {r}) \cup {[r EXCEPT !.stage = "stored"]}
       \/ /\ uploadReqs' = (uploadReqs \ {r}) \cup {[r EXCEPT !.stage = "refused"]}
          /\ UNCHANGED images
    /\ UNCHANGED <<uploadScreen, uploading, imageQueries, uploadToast, uploadSent>>
    /\ UNCHANGED <<coreVars, groupingVars, csvVars, applicationsVars>>

\* uploadMutation.onSuccess: invalidateQueries (see RefetchImages),
\* toast.success, setUploading...(null) on the page that started it
UploadSuccess(r) ==
    /\ r \in uploadReqs /\ r.stage = "stored"
    /\ uploadReqs' = uploadReqs \ {r}
    /\ uploading' = IF r.live THEN Null ELSE uploading
    /\ uploadToast' = "success"
    /\ UNCHANGED <<uploadScreen, images, imageQueries, uploadSent>>
    /\ UNCHANGED <<coreVars, groupingVars, csvVars, applicationsVars>>

\* uploadMutation.onError: the backend's refusal or a failure of the network
UploadError(r) ==
    /\ r \in uploadReqs
    /\ uploadReqs' = uploadReqs \ {r}
    /\ uploading' = IF r.live THEN Null ELSE uploading
    /\ uploadToast' = "error"
    /\ UNCHANGED <<uploadScreen, images, imageQueries, uploadSent>>
    /\ UNCHANGED <<coreVars, groupingVars, csvVars, applicationsVars>>

\* the response interceptor on a 401: the token is removed and the app
\* reloads at /login
UploadUnauthorized(r) ==
    /\ r \in uploadReqs /\ r.stage = "sent"
    /\ uploadScreen' = "login"
    /\ uploading' = Null
    /\ uploadReqs' = {}
    /\ imageQueries' = [s \in Slots |-> Null]
    /\ uploadToast' = "none"
    /\ UNCHANGED <<images, uploadSent>>
    /\ UNCHANGED <<coreVars, groupingVars, csvVars, applicationsVars>>

UploadNext ==
    \/ handleUpload
    \/ handleImageUpload_program
    \/ handleImageUpload_country
    \/ handleAvatarUpload
    \/ \E s \in UploadScreens : OpenUploadScreen(s)
    \/ RefetchImages
    \/ \E r \in uploadReqs : BackendUpload(r)
    \/ \E r \in uploadReqs : UploadSuccess(r)
    \/ \E r \in uploadReqs : UploadError(r)
    \/ \E r \in uploadReqs : UploadUnauthorized(r)

UploadSpec == UploadInit /\ [][UploadNext]_vars

\* --- what the claim calls a file to reject: above the page's cap (10 MB
\* for hero, program and country, 5 MB for the avatar) or not of a type the
\* page's input asks for (JPEG, PNG or WebP on the hero page, image/*
\* elsewhere)
sizeCap(s) == IF s = "avatar" THEN 5 * 1024 * 1024 ELSE 10 * 1024 * 1024
isImage(type) == type \in {"image/jpeg", "image/png", "image/webp", "image/gif"}
disallowedType(s, file) ==
    IF s = "hero" THEN file.type \notin {"image/jpeg", "image/png", "image/webp"}
    ELSE ~isImage(file.type)
toReject(s, file) == file.size > sizeCap(s) \/ disallowedType(s, file)
handled(s, file) == \E target \in targetsOf(s) : Upload(s, target, file)
nothingUploaded == UNCHANGED <<uploadReqs, uploading, images>>

\* C24: on every upload page, a file above the page's size cap or of a
\* disallowed MIME type is rejected by the handler: no upload request is
\* issued, the uploading indicator is not set, the existing image is
\* unchanged.
C24_RejectedLocally ==
    [][\A s \in UploadScreens, file \in Files :
         (handled(s, file) /\ toReject(s, file)) => nothingUploaded]_vars

\* the part of C24 about the size caps alone
C24_OversizedRejected ==
    [][\A s \in UploadScreens, file \in Files :
         (handled(s, file) /\ file.size > sizeCap(s)) => nothingUploaded]_vars

\* the part of C24 about the types, on the hero page alone
C24_HeroTypeRejected ==
    [][\A file \in Files :
         (handled("hero", file) /\ disallowedType("hero", file)) => nothingUploaded]_vars

====
